---- MODULE Spec2Model ----
(***************************************************************************)
(* A model of refua-regulatory: the decision extractor, the lineage graph  *)
(* builder, the evidence-bundle builder and verifier, and the checklist    *)
(* engine.                                                                 *)
(*                                                                         *)
(* Text is modelled as a sequence of tokens.  A token is a record: a       *)
(* character token [c |-> s] stands for the piece of text s, a digest      *)
(* token [d |-> content] for the 64 hexadecimal characters of the SHA-256  *)
(* of a file content.  Both hashes of the program (SHA-256 and the UUIDv5  *)
(* of stable_id) are modelled as injective.                                *)
(***************************************************************************)
EXTENDS Integers, Sequences, FiniteSets, TLC

VARIABLES
    scope,        \* which family of inputs the run draws from (fixed by Init)
    clock,        \* the wall clock read by utcnow_iso
    outExists,    \* whether the output directory exists
    fs,           \* the regular files of the output directory: path -> content
    dirs,         \* the sub-directories of the output directory
    pc,           \* position of the running build_evidence_bundle
    inp,          \* the arguments of the running (or last) build
    loc,          \* the local variables of the running (or last) build
    result,       \* how the last build ended: returned manifest or raised error
    tampered,     \* what was done to the bundle after the build
    obs,          \* the last result of verify / evaluate on the directory
    xin,          \* arguments of a pure-function run (extractor, lineage)
    xout          \* result of a pure-function run

vars == <<scope, clock, outExists, fs, dirs, pc, inp, loc, result, tampered,
          obs, xin, xout>>

None == [t |-> "none"]

(***************************************************************************)
(* Bounds of the model.                                                    *)
(***************************************************************************)
MaxIdLen == 2          \* longest campaign_run_id drawn for the extractor
MaxResults == 2        \* longest `results` list of a campaign record
MaxIterations == 1     \* longest `iterations` list of a campaign record

(***************************************************************************)
(* Text.                                                                   *)
(***************************************************************************)
T(s) == [c |-> s]

IsChar(tok) == DOMAIN tok = {"c"}

\* str.strip() removes these from both ends; str.splitlines() splits at "\n".
Whitespace == {" ", "\n"}

IsSpace(tok) == IsChar(tok) /\ tok.c \in Whitespace

RECURSIVE LStrip(_)
LStrip(s) == IF s # <<>> /\ IsSpace(Head(s)) THEN LStrip(Tail(s)) ELSE s

RECURSIVE RStrip(_)
RStrip(s) ==
    IF s # <<>> /\ IsSpace(s[Len(s)]) THEN RStrip(SubSeq(s, 1, Len(s) - 1)) ELSE s

Strip(s) == LStrip(RStrip(s))

RECURSIVE Join(_, _)
Join(parts, sep) ==
    IF parts = <<>> THEN <<>>
    ELSE IF Len(parts) = 1 THEN parts[1]
    ELSE parts[1] \o sep \o Join(Tail(parts), sep)

Digits == <<"0", "1", "2", "3", "4", "5", "6", "7", "8", "9">>

\* str(n) for n >= 0
RECURSIVE IntToStr(_)
IntToStr(n) ==
    IF n < 10 THEN <<T(Digits[n + 1])>>
    ELSE IntToStr(n \div 10) \o <<T(Digits[(n % 10) + 1])>>

RECURSIVE SeqMap(_, _)
SeqMap(Op(_), s) == IF s = <<>> THEN <<>> ELSE <<Op(Head(s))>> \o SeqMap(Op, Tail(s))

RECURSIVE SeqFilter(_, _)
SeqFilter(Keep(_), s) ==
    IF s = <<>> THEN <<>>
    ELSE (IF Keep(Head(s)) THEN <<Head(s)>> ELSE <<>>) \o SeqFilter(Keep, Tail(s))

Range(s) == {s[i] : i \in DOMAIN s}

\* A long run of one character is the piece [fill |-> n]; the first n
\* characters of a piece are [head_of |-> piece, n |-> n].
Fill(n) == [fill |-> n]
IsFill(tok) == DOMAIN tok = {"fill"}
IsHead(tok) == DOMAIN tok = {"head_of", "n"}

\* len() of a piece of text: a digest is 64 hexadecimal characters
TokLen(tok) ==
    IF IsChar(tok) THEN Len(tok.c)
    ELSE IF IsFill(tok) THEN tok.fill
    ELSE IF IsHead(tok) THEN tok.n
    ELSE 64

RECURSIVE TextLen(_)
TextLen(s) == IF s = <<>> THEN 0 ELSE TokLen(Head(s)) + TextLen(Tail(s))

\* text[:n]
RECURSIVE Take(_, _)
Take(text, n) ==
    IF n <= 0 \/ text = <<>> THEN <<>>
    ELSE IF TokLen(Head(text)) <= n
    THEN <<Head(text)>> \o Take(Tail(text), n - TokLen(Head(text)))
    ELSE IF IsFill(Head(text)) THEN <<Fill(n)>>
    ELSE <<[head_of |-> Head(text), n |-> n]>>

\* All sequences over S of length 0..n
RECURSIVE SeqsUpTo(_, _)
SeqsUpTo(S, n) ==
    IF n = 0 THEN {<<>>}
    ELSE LET shorter == SeqsUpTo(S, n - 1)
         IN shorter \cup {Append(s, x) : s \in {t \in shorter : Len(t) = n - 1}, x \in S}

(***************************************************************************)
(* utils.stable_id                                                         *)
(***************************************************************************)
\* uuid5(NAMESPACE_URL, name).hex, modelled as an injective hash of name
uuid5(name) == <<T("uuid5:")>> \o name

StablePart(part) == Strip(part)

stable_id(parts) == uuid5(Join(SeqMap(StablePart, parts), <<T(":"), T(":")>>))

(***************************************************************************)
(* JSON values.  A value is a tagged record; None stands for JSON null, for *)
(* Python's None and for a key that is absent (dict.get gives None).       *)
(***************************************************************************)
JStr(s) == [t |-> "str", v |-> s]
JNum(n) == [t |-> "num", v |-> n]
JList(s) == [t |-> "list", v |-> s]

IsNone(x) == x.t = "none"
IsStr(x) == x.t = "str"
IsList(x) == x.t = "list"
IsDict(x) == x.t = "dict"

\* Python truthiness of a JSON value
Truthy(x) ==
    CASE x.t = "none" -> FALSE
      [] x.t = "str" -> x.v # <<>>
      [] x.t = "num" -> x.v # 0
      [] x.t = "list" -> x.v # <<>>
      [] OTHER -> TRUE

\* str(x) for the values an `objective` takes in the model
PyStr(x) ==
    CASE x.t = "str" -> x.v
      [] x.t = "num" -> IntToStr(x.v)
      [] x.t = "none" -> <<T("None")>>
      [] OTHER -> <<T("<repr>")>>

\* str(x or "")
StrOrEmpty(x) == IF Truthy(x) THEN PyStr(x) ELSE <<>>

(***************************************************************************)
(* Campaign records.  A record is a JSON object; the model keeps the keys   *)
(* the program reads.  A plan is a dict whose `calls` is a list of calls,  *)
(* a call a dict with a `tool`; a result entry is a dict with `tool`,      *)
(* `args`, `output`; an output is a dict given as a list of (key, value).  *)
(***************************************************************************)
Call(tool) == [t |-> "dict", tool |-> tool]
Plan(calls) == [t |-> "dict", calls |-> calls]
Output(items, backend, version) ==
    [t |-> "dict", items |-> items, backend |-> backend, model_version |-> version]
ResultItem(tool, output) == [t |-> "dict", tool |-> tool, args |-> None, output |-> output]
IterationItem(policy, critic) == [t |-> "dict", policy |-> policy, critic |-> critic]
SubObject(tag) == [t |-> "dict", tag |-> tag]

Payload(run, objective, planner, plan, iterations, final_plan, results, warnings) ==
    [t |-> "dict", campaign_run_id |-> run, run_id |-> None, objective |-> objective,
     planner_response_text |-> planner, plan |-> plan, iterations |-> iterations,
     final_plan |-> final_plan, results |-> results, warnings |-> warnings]

ValidateTool == <<T("refua_validate_spec")>>
FoldTool == <<T("refua_fold")>>

PlanVF == Plan(JList(<<Call(JStr(ValidateTool)), Call(JStr(FoldTool))>>))
PlanFoldFirst == Plan(JList(<<Call(JStr(FoldTool))>>))

(***************************************************************************)
(* utils.truncate_preview.  json.dumps(value, ensure_ascii=True,           *)
(* sort_keys=True) writes the keys of an object in sorted order; a key     *)
(* whose value is None in the model is absent and not written.  The keys   *)
(* of a tool output are kept by the model without their values, each is    *)
(* written with the value true; the tag of a sub-object is a string.       *)
(***************************************************************************)
MaxPreviewChars == 1000

JsonKeyOrder ==
    <<"admet", "args", "backend", "binding_probability", "calls", "campaign_run_id",
      "ci_low", "confidence", "confidence_score", "critic", "final_plan", "iterations",
      "model_version", "objective", "output", "plan", "planner_response_text", "policy",
      "results", "run_id", "score", "tag", "tool", "toxicity", "uncertainty", "warnings">>

JTrue == [t |-> "true"]

\* the place of a key in the sorted order
KeyRank ==
    [key \in Range(JsonKeyOrder) |-> CHOOSE i \in DOMAIN JsonKeyOrder : JsonKeyOrder[i] = key]

\* the keys an object is written with
DictKeys(value) ==
    {key \in DOMAIN value \ {"t", "items", "tag"} : ~IsNone(value[key])}
    \cup (IF "items" \in DOMAIN value THEN Range(value.items) ELSE {})
    \cup (DOMAIN value \cap {"tag"})

ValueAt(value, key) ==
    IF key \in DOMAIN value \cap {"tag"} THEN JStr(<<T(value.tag)>>)
    ELSE IF key \in DOMAIN value \ {"items"} THEN value[key]
    ELSE JTrue

\* sort_keys=True
SortedKeys(keys) ==
    [i \in 1..Cardinality(keys) |->
        CHOOSE key \in keys :
            Cardinality({other \in keys : KeyRank[other] < KeyRank[key]}) = i - 1]

\* a line break inside a string is written as a backslash and the letter n
Escaped(tok) == IF tok = T("\n") THEN T("\\n") ELSE tok

RECURSIVE json_dumps(_)
json_dumps(value) ==
    CASE value.t = "none" -> <<T("null")>>
      [] value.t = "true" -> <<T("true")>>
      [] value.t = "num" -> IntToStr(value.v)
      [] value.t = "str" -> <<T("\"")>> \o SeqMap(Escaped, value.v) \o <<T("\"")>>
      [] value.t = "list" ->
            <<T("[")>> \o Join(SeqMap(json_dumps, value.v), <<T(", ")>>) \o <<T("]")>>
      [] value.t = "dict" ->
            <<T("{")>>
            \o Join(SeqMap(LAMBDA key : <<T("\""), T(key), T("\": ")>>
                                         \o json_dumps(ValueAt(value, key)),
                            SortedKeys(DictKeys(value))),
                    <<T(", ")>>)
            \o <<T("}")>>

\* rendered if it fits, otherwise rendered[: max_chars - 3] + "..."
Truncated(rendered) ==
    IF TextLen(rendered) <= MaxPreviewChars THEN rendered
    ELSE Take(rendered, MaxPreviewChars - TokLen(T("..."))) \o <<T("...")>>

truncate_preview(value) == Truncated(json_dumps(value))

(***************************************************************************)
(* extractors._decision and extractors.extract_decisions_from_campaign     *)
(***************************************************************************)
DecisionIdParts(run, step_index, decision_type, tool, now) ==
    <<run, IntToStr(step_index), <<T(decision_type)>>,
      IF Truthy(tool) THEN tool.v ELSE <<>>>>

_decision(run, step_index, decision_type, actor, tool, preview, refs, meta, now) ==
    [decision_id |-> stable_id(DecisionIdParts(run, step_index, decision_type, tool, now)),
     campaign_run_id |-> run,
     step_index |-> step_index,
     timestamp |-> now,
     decision_type |-> decision_type,
     actor |-> actor,
     tool |-> tool,
     output_preview |-> preview,
     input_refs |-> refs[1],
     output_refs |-> refs[2],
     metadata |-> meta]

NoRefs == <<"", "">>
Meta(round_index, tool_index, stage) ==
    [round_index |-> round_index, tool_index |-> tool_index, stage |-> stage]
NoMeta == Meta(0, 0, "")

\* The extractor's running state is acc = [out, step]: the decisions appended
\* so far and the value of step_index.

\* a faulty variant: the increment is forgotten
StepStuck(step_index) == step_index

\* step_index += 1 after an append
StepAfter(step_index) == step_index + 1

\* decisions.append(...) followed by step_index += 1
Emitted(acc, decision) == [out |-> Append(acc.out, decision), step |-> StepAfter(acc.step)]

\* lines 44-56
ObjectiveDecisions(acc, payload, run, now) ==
    IF Strip(StrOrEmpty(payload.objective)) # <<>>
    THEN Emitted(acc, _decision(run, acc.step, "objective", "campaign", None,
                                JStr(Strip(StrOrEmpty(payload.objective))), NoRefs,
                                NoMeta, now))
    ELSE acc

\* lines 58-71
PlanDecisions(acc, payload, run, now) ==
    IF IsDict(payload.plan)
    THEN Emitted(acc, _decision(run, acc.step, "planning", "planner", None,
                                JStr(truncate_preview(payload.plan)),
                                <<"", "plan:initial">>, NoMeta, now))
    ELSE acc

PolicyDecision(acc, item, idx, run, now) ==
    IF IsDict(item.policy)
    THEN Emitted(acc, _decision(run, acc.step, "policy", "policy", None,
                                JStr(truncate_preview(item.policy)), NoRefs,
                                Meta(idx, 0, ""), now))
    ELSE acc

CriticDecision(acc, item, idx, run, now) ==
    IF IsDict(item.critic)
    THEN Emitted(acc, _decision(run, acc.step, "critic", "critic", None,
                                JStr(truncate_preview(item.critic)), NoRefs,
                                Meta(idx, 0, ""), now))
    ELSE acc

\* lines 73-107: the loop over iterations[idx..], idx counted from 1
RECURSIVE IterationDecisions(_, _, _, _, _)
IterationDecisions(acc, items, idx, run, now) ==
    IF idx > Len(items) THEN acc
    ELSE IF ~IsDict(items[idx]) THEN IterationDecisions(acc, items, idx + 1, run, now)
    ELSE IterationDecisions(
             CriticDecision(PolicyDecision(acc, items[idx], idx, run, now),
                            items[idx], idx, run, now),
             items, idx + 1, run, now)

\* lines 109-129: json.dumps of the two plans compared
FinalPlanDecisions(acc, payload, run, now) ==
    IF IsDict(payload.final_plan)
       /\ json_dumps(payload.final_plan)
              # (IF IsDict(payload.plan) THEN json_dumps(payload.plan) ELSE <<>>)
    THEN Emitted(acc, _decision(run, acc.step, "planning", "planner", None,
                                JStr(truncate_preview(payload.final_plan)),
                                <<"", "plan:final">>, Meta(0, 0, "final"), now))
    ELSE acc

ToolName(item) == IF IsStr(item.tool) THEN item.tool ELSE None

ToolCall(acc, item, idx, run, now) ==
    Emitted(acc, _decision(run, acc.step, "tool_call", "executor", ToolName(item), None,
                           <<"tool", "result">>, Meta(0, idx, ""), now))

ToolResult(acc, item, idx, run, now) ==
    Emitted(acc, _decision(run, acc.step, "tool_result", "executor", ToolName(item),
                           JStr(truncate_preview(item.output)),
                           <<"result", "artifact:tool_result">>, Meta(0, idx, ""), now))

\* lines 131-175: the loop over results[idx..], idx counted from 1
RECURSIVE ResultDecisions(_, _, _, _, _)
ResultDecisions(acc, items, idx, run, now) ==
    IF idx > Len(items) THEN acc
    ELSE IF ~IsDict(items[idx]) THEN ResultDecisions(acc, items, idx + 1, run, now)
    ELSE ResultDecisions(
             ToolResult(ToolCall(acc, items[idx], idx, run, now), items[idx], idx, run, now),
             items, idx + 1, run, now)

\* a faulty variant: an empty list of warnings gives a note too
NoteForAnyList(acc, payload, run, now) ==
    IF IsList(payload.warnings)
    THEN [acc EXCEPT !.out = Append(@, _decision(run, acc.step, "note", "system", None,
                                                 JStr(truncate_preview(payload.warnings)),
                                                 NoRefs, NoMeta, now))]
    ELSE acc

\* lines 177-188: the note is appended, step_index is left as it is
WarningDecisions(acc, payload, run, now) ==
    IF IsList(payload.warnings) /\ payload.warnings.v # <<>>
    THEN [acc EXCEPT !.out = Append(@, _decision(run, acc.step, "note", "system", None,
                                                 JStr(truncate_preview(payload.warnings)),
                                                 NoRefs, NoMeta, now))]
    ELSE acc

\* lines 190-202
FallbackDecisions(acc, payload, run, now) ==
    IF acc.out = <<>>
    THEN <<_decision(run, 1, "note", "system", None, JStr(truncate_preview(payload)), NoRefs,
                     NoMeta, now)>>
    ELSE acc.out

ListOrEmpty(value) == IF IsList(value) THEN value.v ELSE <<>>

extract_decisions_from_campaign(payload, run, now) ==
    FallbackDecisions(
        WarningDecisions(
            ResultDecisions(
                FinalPlanDecisions(
                    IterationDecisions(
                        PlanDecisions(
                            ObjectiveDecisions([out |-> <<>>, step |-> 1], payload, run, now),
                            payload, run, now),
                        ListOrEmpty(payload.iterations), 1, run, now),
                    payload, run, now),
                ListOrEmpty(payload.results), 1, run, now),
            payload, run, now),
        payload, run, now)

(***************************************************************************)
(* extractors.extract_model_provenance                                     *)
(***************************************************************************)
\* _TOOL_TO_MODEL.get(tool_name, tool_name)
ToolToModel(tool_name) ==
    CASE tool_name = ValidateTool -> <<T("refua-validator")>>
      [] tool_name = FoldTool -> <<T("refua-boltz")>>
      [] OTHER -> tool_name

ModelProvenance(model_name, model_version, tool, backend) ==
    [model_name |-> model_name, model_version |-> model_version, tool |-> tool,
     backend |-> backend]

ModelOfItem(item, override_name, override_version) ==
    LET output_map == IF IsDict(item.output) THEN item.output
                      ELSE Output(<<>>, None, None)
        backend == IF IsStr(output_map.backend) THEN output_map.backend ELSE None
        model_name == IF Truthy(override_name) THEN override_name
                      ELSE JStr(ToolToModel(item.tool.v))
        candidate == output_map.model_version
        model_version ==
            IF ~IsNone(override_version) THEN override_version
            ELSE IF IsStr(candidate) /\ Strip(candidate.v) # <<>>
                 THEN JStr(Strip(candidate.v)) ELSE None
    IN ModelProvenance(model_name, model_version, item.tool, backend)

\* the loop over results: `models` so far, entries from index idx on
RECURSIVE ModelLoop(_, _, _, _, _)
ModelLoop(items, idx, models, override_name, override_version) ==
    IF idx > Len(items) THEN models
    ELSE LET item == items[idx]
         IN IF ~IsDict(item) \/ ~IsStr(item.tool)
            THEN ModelLoop(items, idx + 1, models, override_name, override_version)
            ELSE LET m == ModelOfItem(item, override_name, override_version)
                 IN ModelLoop(items, idx + 1,
                              IF m \in Range(models) THEN models ELSE Append(models, m),
                              override_name, override_version)

\* a faulty variant: the override record is added whenever a name is given
extract_models_adding_override(payload, override_name, override_version) ==
    LET models == IF IsList(payload.results)
                  THEN ModelLoop(payload.results.v, 1, <<>>, override_name, override_version)
                  ELSE <<>>
    IN IF Truthy(override_name)
       THEN Append(models, ModelProvenance(override_name, override_version, None, None))
       ELSE models

extract_model_provenance(payload, override_name, override_version) ==
    LET models == IF IsList(payload.results)
                  THEN ModelLoop(payload.results.v, 1, <<>>, override_name, override_version)
                  ELSE <<>>
    IN IF models = <<>> /\ Truthy(override_name)
       THEN <<ModelProvenance(override_name, override_version, None, None)>>
       ELSE models

(***************************************************************************)
(* lineage.build_lineage_graph                                             *)
(***************************************************************************)
Node(id, kind, step_index) == [id |-> id, kind |-> kind, step_index |-> step_index]
Edge(from, to, type) == [from |-> from, to |-> to, type |-> type]

\* sorted(decisions, key=step_index): a stable insertion sort
RECURSIVE InsertByStep(_, _)
InsertByStep(sorted, d) ==
    IF sorted = <<>> THEN <<d>>
    ELSE IF sorted[Len(sorted)].step_index <= d.step_index THEN Append(sorted, d)
    ELSE Append(InsertByStep(SubSeq(sorted, 1, Len(sorted) - 1), d), sorted[Len(sorted)])

RECURSIVE SortedByStep(_)
SortedByStep(decisions) ==
    IF decisions = <<>> THEN <<>>
    ELSE InsertByStep(SortedByStep(SubSeq(decisions, 1, Len(decisions) - 1)),
                      decisions[Len(decisions)])

RunNodeId(run) == <<T("run:")>> \o run
ModelNodeId(index) == <<T("model:")>> \o IntToStr(index)
DataNodeId(index) == <<T("data:")>> \o IntToStr(index)
ArtifactNodeId(artifact) == <<T("artifact:")>> \o artifact.artifact_id
DecisionNodeId(decision) == <<T("decision:")>> \o decision.decision_id

\* a faulty variant: no `next` edge is added
NoChainEdge(sorted, i) == <<>>

\* the `next` edge into the decision at position i of the sorted list
ChainEdge(sorted, i) ==
    IF i > 1
    THEN <<Edge(DecisionNodeId(sorted[i - 1]), DecisionNodeId(sorted[i]), "next")>>
    ELSE <<>>

RECURSIVE UsedModelEdges(_, _, _)
UsedModelEdges(decision, models, index) ==
    IF index > Len(models) THEN <<>>
    ELSE (IF ~IsNone(decision.tool) /\ ~IsNone(models[index].tool)
             /\ models[index].tool = decision.tool
          THEN <<Edge(DecisionNodeId(decision), ModelNodeId(index), "used_model")>>
          ELSE <<>>) \o UsedModelEdges(decision, models, index + 1)

RECURSIVE DecisionEdges(_, _, _, _, _)
DecisionEdges(sorted, i, run, models, artifacts) ==
    IF i > Len(sorted) THEN <<>>
    ELSE LET d == sorted[i]
         IN <<Edge(RunNodeId(run), DecisionNodeId(d), "has_decision")>>
            \o ChainEdge(sorted, i)
            \o UsedModelEdges(d, models, 1)
            \o (IF d.decision_type = "tool_result" /\ artifacts # <<>>
                THEN <<Edge(DecisionNodeId(d), ArtifactNodeId(artifacts[1]), "recorded_in")>>
                ELSE <<>>)
            \o DecisionEdges(sorted, i + 1, run, models, artifacts)

build_lineage_graph(run, decisions, artifacts, models, datasets) ==
    LET sorted == SortedByStep(decisions)
        nodes ==
            <<Node(RunNodeId(run), "campaign_run", 0)>>
            \o [i \in 1..Len(models) |-> Node(ModelNodeId(i), "model", 0)]
            \o [i \in 1..Len(datasets) |-> Node(DataNodeId(i), "dataset", 0)]
            \o [i \in 1..Len(artifacts) |-> Node(ArtifactNodeId(artifacts[i]), "artifact", 0)]
            \o [i \in 1..Len(sorted) |->
                    Node(DecisionNodeId(sorted[i]), "decision", sorted[i].step_index)]
        edges ==
            [i \in 1..Len(models) |-> Edge(RunNodeId(run), ModelNodeId(i), "uses_model")]
            \o [i \in 1..Len(datasets) |-> Edge(RunNodeId(run), DataNodeId(i), "uses_dataset")]
            \o [i \in 1..Len(artifacts) |->
                    Edge(RunNodeId(run), ArtifactNodeId(artifacts[i]), "produced_artifact")]
            \o DecisionEdges(sorted, 1, run, models, artifacts)
    IN [t |-> "dict", campaign_run_id |-> run, nodes |-> JList(nodes), edges |-> JList(edges)]

(***************************************************************************)
(* Files.  A content is [kind, v, junk]: kind "json" is a JSON document    *)
(* with value v, "jsonl" one JSON document per line, "text" other UTF-8    *)
(* text, "bin" bytes that do not decode as UTF-8.  junk counts pieces of   *)
(* text appended after the content was written ("\n#tampered\n"): a JSON   *)
(* document with junk no longer parses, a line file has junk more lines.   *)
(***************************************************************************)
Content(kind, v) == [kind |-> kind, v |-> v, junk |-> 0]

\* hashlib.sha256 over the bytes of a file, modelled as injective
sha256_file(content) == [d |-> content]

P_manifest == <<T("manifest.json")>>
P_decisions == <<T("decisions.jsonl")>>
P_lineage == <<T("lineage.json")>>
P_checksums == <<T("checksums.sha256")>>
P_campaign == <<T("artifacts/"), T("campaign_run.json")>>
P_stale == <<T("stale.txt")>>
P_notes == <<T("notes.txt")>>

\* f"{index:03d}"
Pad3(index) ==
    (IF index < 100 THEN <<T("0")>> ELSE <<>>) \o (IF index < 10 THEN <<T("0")>> ELSE <<>>)
    \o IntToStr(index)

DataManifestPath(index, name) ==
    <<T("artifacts/"), T("data_manifests/"), T("manifest_")>> \o Pad3(index) \o <<T("_")>>
    \o name
ExtraPath(index, name) ==
    <<T("artifacts/"), T("extras/"), T("extra_")>> \o Pad3(index) \o <<T("_")>> \o name
ChecklistPath(template, ext) == <<T("checklists/"), T(template), T(ext)>>

_REQUIRED_BUNDLE_FILES == <<P_manifest, P_decisions, P_lineage, P_checksums>>

\* The pieces of text paths are made of, in the order Python compares them.
TokOrder ==
    <<"\n", " ", ".json", ".md", "0", "1", "2", "3", "4", "5", "6", "7", "8", "9", "_",
      "artifacts/", "benchmark", "bogus", "campaign_run.json", "checklists/",
      "checksums.sha256", "core", "data_manifests/", "decisions.jsonl",
      "drug_discovery_comprehensive", "e", "extra_", "extras/", "fda_cder_ai_ml",
      "lineage.json", "m", "manifest.json", "manifest_", "notes.txt", "stale.txt">>

TokRank(tok) == CHOOSE i \in DOMAIN TokOrder : TokOrder[i] = tok.c

RECURSIVE PathLess(_, _)
PathLess(p, q) ==
    IF q = <<>> THEN FALSE
    ELSE IF p = <<>> THEN TRUE
    ELSE IF Head(p) = Head(q) THEN PathLess(Tail(p), Tail(q))
    ELSE TokRank(Head(p)) < TokRank(Head(q))

RECURSIVE SortPaths(_)
SortPaths(S) ==
    IF S = {} THEN <<>>
    ELSE LET least == CHOOSE p \in S : \A q \in S \ {p} : PathLess(p, q)
         IN <<least>> \o SortPaths(S \ {least})

\* utils.list_bundle_files: sorted(bundle_dir.rglob("*")), regular files only
list_bundle_files(files) == SortPaths(DOMAIN files)

IsNotChecksums(path) == path # P_checksums

\* a faulty variant: the checksum file is listed with the others
_bundle_file_list_with_checksums(files) == list_bundle_files(files)

_bundle_file_list(files) == SeqFilter(IsNotChecksums, list_bundle_files(files))

\* f"{digest}  {rel_name}\n"
ChecksumLine(files, rel_name) ==
    <<sha256_file(files[rel_name]), T(" "), T(" ")>> \o rel_name \o <<T("\n")>>

RECURSIVE ChecksumText(_, _)
ChecksumText(files, names) ==
    IF names = <<>> THEN <<>>
    ELSE ChecksumLine(files, Head(names)) \o ChecksumText(files, Tail(names))

\* bundle._write_checksums: the directory after the checksum file is written
_write_checksums(files) ==
    LET text == ChecksumText(files, _bundle_file_list(files))
    IN [p \in DOMAIN files \cup {P_checksums} |->
            IF p = P_checksums THEN Content("text", text) ELSE files[p]]

\* str.splitlines() on text whose only line break is "\n"
RECURSIVE SplitLines(_, _)
SplitLines(text, current) ==
    IF text = <<>> THEN (IF current = <<>> THEN <<>> ELSE <<current>>)
    ELSE IF IsChar(Head(text)) /\ Head(text).c = "\n"
         THEN <<current>> \o SplitLines(Tail(text), <<>>)
         ELSE SplitLines(Tail(text), Append(current, Head(text)))

\* the lines of a text file: those written, then one per appended piece
RECURSIVE JunkLines(_)
JunkLines(n) == IF n = 0 THEN <<>> ELSE <<<<T("#tampered")>>>> \o JunkLines(n - 1)

LinesOf(content) == SplitLines(content.v, <<>>) \o JunkLines(content.junk)

\* index of the first "  " in a line, 0 when there is none
RECURSIVE FindTwoSpaces(_, _)
FindTwoSpaces(line, i) ==
    IF i >= Len(line) THEN 0
    ELSE IF line[i] = T(" ") /\ line[i + 1] = T(" ") THEN i
    ELSE FindTwoSpaces(line, i + 1)

\* bundle._parse_checksum_file on the lines of the file: the entries, or
\* raised when a line is malformed
RECURSIVE ParseChecksumLines(_, _)
ParseChecksumLines(lines, entries) ==
    IF lines = <<>> THEN [raised |-> FALSE, entries |-> entries]
    ELSE LET line == Strip(Head(lines))
             at == FindTwoSpaces(line, 1)
             digest == Strip(SubSeq(line, 1, at - 1))
             rel_path == Strip(SubSeq(line, at + 2, Len(line)))
         IN IF line = <<>> THEN ParseChecksumLines(Tail(lines), entries)
            ELSE IF at = 0 \/ TextLen(digest) # 64 \/ rel_path = <<>>
                 THEN [raised |-> TRUE, entries |-> <<>>]
                 ELSE ParseChecksumLines(Tail(lines),
                          Append(entries, [digest |-> digest, rel_path |-> rel_path]))

_parse_checksum_file(content) ==
    IF content.kind # "text" THEN [raised |-> TRUE, entries |-> <<>>]
    ELSE ParseChecksumLines(LinesOf(content), <<>>)

\* utils.read_json_object: the object, or raised
read_json_object(content) ==
    IF content.kind = "json" /\ content.junk = 0 /\ IsDict(content.v)
    THEN [raised |-> FALSE, v |-> content.v]
    ELSE [raised |-> TRUE, v |-> None]

\* bundle._count_jsonl_lines: the non-blank lines; raised when the bytes do
\* not decode
_count_jsonl_lines(content) ==
    IF content.kind = "bin" THEN [raised |-> TRUE, count |-> 0]
    ELSE IF content.kind = "jsonl"
         THEN [raised |-> FALSE, count |-> Len(content.v) + content.junk]
         ELSE [raised |-> FALSE, count |-> 1 + content.junk]

(***************************************************************************)
(* bundle.verify_evidence_bundle                                           *)
(***************************************************************************)
Err(kind, path) == [kind |-> kind, path |-> path]

MissingRequired(files) ==
    SeqMap(LAMBDA p : Err("missing_required", p),
           SeqFilter(LAMBDA p : p \notin DOMAIN files, _REQUIRED_BUNDLE_FILES))

\* the loop over the checksum entries
RECURSIVE CheckEntries(_, _, _)
CheckEntries(files, entries, acc) ==
    IF entries = <<>> THEN acc
    ELSE LET e == Head(entries)
             rest == Tail(entries)
         IN IF e.rel_path = P_checksums
            THEN CheckEntries(files, rest,
                     [acc EXCEPT !.warnings = Append(@, Err("lists_itself", e.rel_path))])
            ELSE IF e.rel_path \notin DOMAIN files
            THEN CheckEntries(files, rest,
                     [acc EXCEPT !.errors = Append(@, Err("missing_target", e.rel_path))])
            ELSE IF <<sha256_file(files[e.rel_path])>> # e.digest
            THEN CheckEntries(files, rest,
                     [acc EXCEPT !.checked = @ + 1,
                                 !.errors = Append(@, Err("checksum_mismatch", e.rel_path))])
            ELSE CheckEntries(files, rest, [acc EXCEPT !.checked = @ + 1])

\* the checks of manifest.files
ManifestFilesErrors(files, manifest) ==
    IF ~IsList(manifest.files) THEN <<Err("files_not_list", <<>>)>>
    ELSE LET listed == manifest.files.v
             bad == {i \in DOMAIN listed : ~IsStr(listed[i])}
             upto == IF bad = {} THEN Len(listed)
                     ELSE (CHOOSE i \in bad : \A j \in bad : i <= j) - 1
             missing == {i \in 1..upto : listed[i].v \notin DOMAIN files}
         IN (IF bad # {} THEN <<Err("files_not_strings", <<>>)>> ELSE <<>>)
            \o (IF missing # {} THEN <<Err("files_missing", listed[CHOOSE i \in missing : TRUE].v)>>
                ELSE <<>>)

VerificationResult(ok, checked_files, errors, warnings) ==
    [raised |-> FALSE, ok |-> ok, checked_files |-> checked_files, errors |-> errors,
     warnings |-> warnings]

\* _count_jsonl_lines raised inside verify: the caller gets the exception
VerifyRaised == [raised |-> TRUE, ok |-> FALSE, checked_files |-> 0, errors |-> <<>>,
                 warnings |-> <<>>]

\* ok = not errors
OkOf(errors) == Len(errors) = 0

\* lines 207-213: the manifest as read, v = None when the file is absent
ReadManifest(files) ==
    IF P_manifest \in DOMAIN files THEN read_json_object(files[P_manifest])
    ELSE [raised |-> FALSE, v |-> None]

\* lines 215-221
ReadChecksums(files) ==
    IF P_checksums \in DOMAIN files THEN _parse_checksum_file(files[P_checksums])
    ELSE [raised |-> FALSE, entries |-> <<>>]

\* the errors collected before the loop over the checksum entries
EarlyErrors(files, manifest, parsed) ==
    MissingRequired(files)
    \o (IF manifest.raised THEN <<Err("invalid_manifest", P_manifest)>> ELSE <<>>)
    \o (IF parsed.raised THEN <<Err("invalid_checksums", P_checksums)>> ELSE <<>>)

\* lines 255-266: the declared decision_count against the lines of the log
DecisionCountErrors(files, manifest) ==
    IF P_decisions \in DOMAIN files /\ manifest.decision_count.t = "num"
       /\ ~_count_jsonl_lines(files[P_decisions]).raised
       /\ manifest.decision_count.v # _count_jsonl_lines(files[P_decisions]).count
    THEN <<Err("decision_count_mismatch", P_decisions)>>
    ELSE <<>>

\* lines 241-266: the checks made when the manifest parsed
ManifestErrors(files, manifest) ==
    IF manifest.raised \/ IsNone(manifest.v) THEN <<>>
    ELSE ManifestFilesErrors(files, manifest.v) \o DecisionCountErrors(files, manifest.v)

CountRaises(files, manifest) ==
    /\ ~manifest.raised /\ ~IsNone(manifest.v)
    /\ P_decisions \in DOMAIN files
    /\ _count_jsonl_lines(files[P_decisions]).raised

VerifyResult(loop, errors, raises) ==
    IF raises THEN VerifyRaised
    ELSE VerificationResult(OkOf(errors), loop.checked, errors, loop.warnings)

VerifyLoop(files, manifest, loop) ==
    VerifyResult(loop, loop.errors \o ManifestErrors(files, manifest),
                 CountRaises(files, manifest))

VerifyFiles(files, manifest, parsed) ==
    VerifyLoop(files, manifest,
               CheckEntries(files, parsed.entries,
                            [checked |-> 0, errors |-> EarlyErrors(files, manifest, parsed),
                             warnings |-> <<>>]))

\* a faulty variant: a file of the directory that the checksum file does not
\* name is an error
verify_flagging_unlisted(exists, files) ==
    IF ~exists
    THEN VerificationResult(FALSE, 0, <<Err("not_found", <<>>)>>, <<>>)
    ELSE LET found == VerifyFiles(files, ReadManifest(files), ReadChecksums(files))
             entries == ReadChecksums(files).entries
             listed == {entries[i].rel_path : i \in DOMAIN entries}
             unlisted == DOMAIN files \ (listed \cup {P_checksums})
         IN IF found.raised \/ unlisted = {} THEN found
            ELSE [found EXCEPT !.ok = FALSE,
                               !.errors = Append(@, Err("unlisted", <<>>))]

verify_evidence_bundle(exists, files) ==
    IF ~exists
    THEN VerificationResult(FALSE, 0, <<Err("not_found", <<>>)>>, <<>>)
    ELSE VerifyFiles(files, ReadManifest(files), ReadChecksums(files))

(***************************************************************************)
(* Files given to a build.  A source file is [name, exists, content]; the  *)
(* campaign record is a source file too.                                   *)
(***************************************************************************)
Source(name, exists, content) == [name |-> name, exists |-> exists, content |-> content]

DataManifest(dataset_id) == [t |-> "dict", dataset_id |-> dataset_id]

DataProvenance(dataset_id, manifest_rel_path, manifest_name) ==
    [dataset_id |-> dataset_id, manifest_rel_path |-> manifest_rel_path,
     manifest_name |-> manifest_name]

Warning(kind, path) == [kind |-> kind, path |-> path]

\* Path.name: the last component of a path
IsDirectoryPart(tok) ==
    tok \in {T("artifacts/"), T("data_manifests/"), T("extras/"), T("checklists/")}
PathName(path) == SeqFilter(LAMBDA tok : ~IsDirectoryPart(tok), path)

\* extractors.load_data_provenance_from_manifests over the copied manifests
\* (each [path, name, content]); the copies exist, so no "missing" warning
RECURSIVE load_data_provenance_from_manifests(_)
load_data_provenance_from_manifests(copied) ==
    IF copied = <<>> THEN [records |-> <<>>, warnings |-> <<>>]
    ELSE LET file == Head(copied)
             rest == load_data_provenance_from_manifests(Tail(copied))
             parses == file.content.kind = "json" /\ file.content.junk = 0
             payload == file.content.v
         IN IF ~parses
            THEN [rest EXCEPT !.warnings = <<Warning("parse_failed", file.path)>> \o @]
            ELSE IF ~IsDict(payload)
            THEN [rest EXCEPT !.warnings = <<Warning("not_object", file.path)>> \o @]
            ELSE IF ~IsStr(payload.dataset_id) \/ Strip(payload.dataset_id.v) = <<>>
            THEN [rest EXCEPT !.warnings = <<Warning("no_dataset_id", file.path)>> \o @]
            ELSE [rest EXCEPT !.records =
                      <<DataProvenance(Strip(payload.dataset_id.v), None,
                                       PathName(file.path))>> \o @]

\* the copy loop of bundle._copy_and_load_data_manifests
RECURSIVE CopyManifests(_, _)
CopyManifests(paths, index) ==
    IF index > Len(paths) THEN [copied |-> <<>>, warnings |-> <<>>]
    ELSE LET source == paths[index]
             rest == CopyManifests(paths, index + 1)
         IN IF ~source.exists
            THEN [rest EXCEPT !.warnings = <<Warning("missing_manifest", source.name)>> \o @]
            ELSE [rest EXCEPT !.copied =
                      <<[path |-> DataManifestPath(index, source.name), name |-> source.name,
                         content |-> source.content]>> \o @]

PairedByPosition(copied, records, idx) ==
    IF idx <= Len(copied) THEN JStr(copied[idx].path) ELSE None

\* a faulty variant: the warnings of the loader are not kept
_copy_and_load_dropping_warnings(data_manifest_paths) ==
    IF data_manifest_paths = <<>>
    THEN [records |-> <<>>, warnings |-> <<>>, copied |-> <<>>, made_dir |-> FALSE]
    ELSE LET copy == CopyManifests(data_manifest_paths, 1)
             loaded == load_data_provenance_from_manifests(copy.copied)
             updated == [idx \in 1..Len(loaded.records) |->
                            [loaded.records[idx] EXCEPT !.manifest_rel_path =
                                 PairedByPosition(copy.copied, loaded.records, idx)]]
         IN [records |-> updated, warnings |-> copy.warnings,
             copied |-> copy.copied, made_dir |-> TRUE]

_copy_and_load_data_manifests(data_manifest_paths) ==
    IF data_manifest_paths = <<>>
    THEN [records |-> <<>>, warnings |-> <<>>, copied |-> <<>>, made_dir |-> FALSE]
    ELSE LET copy == CopyManifests(data_manifest_paths, 1)
             loaded == load_data_provenance_from_manifests(copy.copied)
             updated == [idx \in 1..Len(loaded.records) |->
                            [loaded.records[idx] EXCEPT !.manifest_rel_path =
                                 PairedByPosition(copy.copied, loaded.records, idx)]]
         IN [records |-> updated, warnings |-> copy.warnings \o loaded.warnings,
             copied |-> copy.copied, made_dir |-> TRUE]

ArtifactRef(artifact_id, role, rel_path, content) ==
    [artifact_id |-> artifact_id, role |-> role, rel_path |-> rel_path,
     sha256 |-> sha256_file(content)]

\* the loop over extra_artifacts of bundle._copy_artifacts
RECURSIVE CopyExtras(_, _)
CopyExtras(extras, index) ==
    IF index > Len(extras) THEN [copied |-> <<>>, refs |-> <<>>, warnings |-> <<>>]
    ELSE LET source == extras[index]
             rest == CopyExtras(extras, index + 1)
             target == ExtraPath(index, source.name)
         IN IF ~source.exists
            THEN [rest EXCEPT !.warnings = <<Warning("missing_extra", source.name)>> \o @]
            ELSE [rest EXCEPT
                    !.copied = <<[path |-> target, name |-> source.name,
                                  content |-> source.content]>> \o @,
                    !.refs = <<ArtifactRef(<<T("extra_")>> \o Pad3(index), "extra", target,
                                           source.content)>> \o @]

_copy_artifacts(campaign_run, extra_artifacts) ==
    LET extras == CopyExtras(extra_artifacts, 1)
    IN [copied |-> <<[path |-> P_campaign, name |-> campaign_run.name,
                      content |-> campaign_run.content]>> \o extras.copied,
        refs |-> <<ArtifactRef(<<T("campaign_run")>>, "campaign_run", P_campaign,
                               campaign_run.content)>> \o extras.refs,
        warnings |-> extras.warnings,
        made_dir |-> extra_artifacts # <<>>]

\* the files of a directory after the given copies are written into it
RECURSIVE WithFiles(_, _)
WithFiles(files, copied) ==
    IF copied = <<>> THEN files
    ELSE LET file == Head(copied)
             written == [p \in DOMAIN files \cup {file.path} |->
                            IF p = file.path THEN file.content ELSE files[p]]
         IN WithFiles(written, Tail(copied))

WithFile(files, path, content) ==
    WithFiles(files, <<[path |-> path, content |-> content]>>)

SourcePath == <<T("/in/campaign_run.json")>>

\* extractors.infer_campaign_run_id
infer_campaign_run_id(payload, source_path) ==
    LET explicit == IF Truthy(payload.campaign_run_id) THEN payload.campaign_run_id
                    ELSE payload.run_id
    IN IF IsStr(explicit) /\ Strip(explicit.v) # <<>> THEN Strip(explicit.v)
       ELSE stable_id(<<<<T("campaign_run")>>, StrOrEmpty(payload.objective),
                        StrOrEmpty(payload.planner_response_text), source_path>>)

\* provenance.collect_execution_provenance: three sub-objects, always
ExecutionProvenance ==
    [t |-> "dict", runtime |-> [t |-> "dict"], git |-> [t |-> "dict"],
     dependencies |-> [t |-> "dict"]]

\* to_plain_data(EvidenceBundleManifest(...))
EvidenceBundleManifest(bundle_id, created_at, run, decisions, artifacts, models, datasets, files, checklist_reports, checklist_summary, warnings) ==
    [t |-> "dict",
     bundle_id |-> bundle_id,
     created_at |-> created_at,
     campaign_run_id |-> JStr(run),
     source_rel_path |-> JStr(P_campaign),
     decision_count |-> JNum(Len(decisions)),
     artifact_count |-> JNum(Len(artifacts)),
     model_count |-> JNum(Len(models)),
     data_count |-> JNum(Len(datasets)),
     files |-> JList(SeqMap(JStr, files)),
     model_provenance |-> JList(models),
     data_provenance |-> JList(datasets),
     execution_provenance |-> ExecutionProvenance,
     checklist_reports |-> JList(checklist_reports),
     checklist_summary |-> checklist_summary,
     warnings |-> JList(warnings)]

(***************************************************************************)
(* checklist: the evaluation context                                       *)
(***************************************************************************)
\* checklist._safe_read_json_object: the object, or None
_safe_read_json_object(files, path) ==
    IF path \notin DOMAIN files THEN None
    ELSE LET read == read_json_object(files[path])
         IN IF read.raised THEN None ELSE read.v

\* checklist._load_decisions: raised when the bytes do not decode
_load_decisions(files) ==
    IF P_decisions \notin DOMAIN files THEN [raised |-> FALSE, v |-> <<>>]
    ELSE LET content == files[P_decisions]
         IN IF content.kind = "bin" THEN [raised |-> TRUE, v |-> <<>>]
            ELSE IF content.kind = "jsonl" THEN [raised |-> FALSE, v |-> content.v]
            ELSE [raised |-> FALSE, v |-> <<>>]

_ChecklistContext(exists, dir_names, files) ==
    [exists |-> exists,
     dir_names |-> dir_names,
     files |-> files,
     manifest |-> _safe_read_json_object(files, P_manifest),
     lineage |-> _safe_read_json_object(files, P_lineage),
     campaign_run |-> _safe_read_json_object(files, P_campaign),
     verification |-> verify_evidence_bundle(exists, files)]

\* int(value) if isinstance(value, int) else 0
_safe_int(value) == IF value.t = "num" THEN value.v ELSE 0

decision_count(context) ==
    IF IsNone(context.manifest) THEN 0 ELSE _safe_int(context.manifest.decision_count)
model_count(context) ==
    IF IsNone(context.manifest) THEN 0 ELSE _safe_int(context.manifest.model_count)
data_count(context) ==
    IF IsNone(context.manifest) THEN 0 ELSE _safe_int(context.manifest.data_count)

manifest_warnings(context) ==
    IF IsNone(context.manifest) THEN <<>>
    ELSE IF IsList(context.manifest.warnings) THEN context.manifest.warnings.v ELSE <<>>

\* str(value).strip() if isinstance(value, str) else ""
StrippedIfStr(value) == IF IsStr(value) THEN Strip(value.v) ELSE <<>>

objective(context) ==
    IF IsNone(context.campaign_run) THEN <<>>
    ELSE StrippedIfStr(context.campaign_run.objective)

planner_response_text(context) ==
    IF IsNone(context.campaign_run) THEN <<>>
    ELSE StrippedIfStr(context.campaign_run.planner_response_text)

plan_calls(context) ==
    LET run == context.campaign_run
    IN IF IsNone(run) THEN <<>>
       ELSE IF IsDict(run.final_plan) /\ IsList(run.final_plan.calls)
            THEN SeqFilter(IsDict, run.final_plan.calls.v)
       ELSE IF IsDict(run.plan) /\ IsList(run.plan.calls)
            THEN SeqFilter(IsDict, run.plan.calls.v)
       ELSE <<>>

tool_results(context) ==
    LET run == context.campaign_run
    IN IF IsNone(run) THEN <<>>
       ELSE IF ~IsList(run.results) THEN <<>>
       ELSE SeqFilter(IsDict, run.results.v)

\* a faulty variant of first_tool: the tool of the last call
last_tool(context) ==
    LET calls == plan_calls(context)
    IN IF calls = <<>> THEN None
       ELSE IF IsStr(calls[Len(calls)].tool) THEN calls[Len(calls)].tool ELSE None

first_tool(context) ==
    LET calls == plan_calls(context)
    IN IF calls = <<>> THEN None
       ELSE IF IsStr(calls[1].tool) THEN calls[1].tool ELSE None

\* checklist._flatten_keys of a tool output: its keys, lower-cased
_flatten_keys(output) ==
    IF ~IsDict(output) THEN {}
    ELSE Range(output.items)
         \cup (IF IsNone(output.backend) THEN {} ELSE {"backend"})
         \cup (IF IsNone(output.model_version) THEN {} ELSE {"model_version"})

\* the vocabulary tokens that are substrings of a key
TokensIn(key) ==
    CASE key = "confidence" -> {"confidence"}
      [] key = "confidence_score" -> {"confidence", "confidence_score"}
      [] key = "warnings" -> {"warning", "warnings"}
      [] key = "admet" -> {"admet"}
      [] key = "toxicity" -> {"tox"}
      [] OTHER -> {}

uncertainty_tokens ==
    {"binding_probability", "confidence", "confidence_score", "uncertainty", "ci_low",
     "ci_high", "warnings"}

safety_tokens ==
    {"admet", "tox", "toxic", "herg", "ames", "warning", "warnings", "assessment", "safety"}

\* the tokens of a vocabulary found in the outputs of the results
Matched(results, tokens) ==
    {token \in tokens :
        \E i \in DOMAIN results : \E key \in _flatten_keys(results[i].output) :
            token \in TokensIn(key)}

\* the prohibited phrases contained in a text
ProhibitedIn(text) == {i \in DOMAIN text : text[i] = T("guaranteed cure")}

\* the benchmark tokens contained in a path
BenchmarkIn(path) == {i \in DOMAIN path : path[i] = T("benchmark")}

(***************************************************************************)
(* checklist: the checks.  Each gives the status of its result.            *)
(***************************************************************************)
_check_bundle_structure(context) ==
    LET required == {P_manifest, P_decisions, P_lineage, P_checksums, P_campaign}
    IN IF required \subseteq DOMAIN context.files THEN "pass" ELSE "fail"

_check_integrity_verification(context) ==
    IF context.verification.ok THEN "pass" ELSE "fail"

_check_objective_defined(context) ==
    IF objective(context) # <<>> THEN "pass" ELSE "fail"

_check_executable_plan_present(context) ==
    IF plan_calls(context) # <<>> THEN "pass" ELSE "fail"

_check_validation_first_policy(context) ==
    LET first == first_tool(context)
    IN IF IsNone(first) THEN "fail"
       ELSE IF first.v = ValidateTool THEN "pass"
       ELSE "fail"

_check_tool_results_present(context) ==
    IF tool_results(context) # <<>> THEN "pass" ELSE "manual_review"

_check_traceability(context) ==
    IF IsNone(context.manifest) THEN "fail"
    ELSE IF decision_count(context) < 1 THEN "fail"
    ELSE LET lineage == context.lineage
             node_count == IF IsDict(lineage) /\ IsList(lineage.nodes)
                           THEN Len(lineage.nodes.v) ELSE 0
             edge_count == IF IsDict(lineage) /\ IsList(lineage.edges)
                           THEN Len(lineage.edges.v) ELSE 0
         IN IF node_count = 0 \/ edge_count = 0 THEN "fail" ELSE "pass"

_check_model_provenance(context) ==
    IF model_count(context) < 1 THEN "fail" ELSE "pass"

\* a faulty variant: a bundle without data records passes
_check_data_provenance_lenient(context) ==
    IF data_count(context) < 0 THEN "fail" ELSE "pass"

_check_data_provenance(context) ==
    IF data_count(context) < 1 THEN "fail" ELSE "pass"

_check_execution_provenance(context) ==
    IF IsNone(context.manifest) THEN "fail"
    ELSE LET execution == context.manifest.execution_provenance
         IN IF ~IsDict(execution) THEN "fail"
            ELSE IF ~IsDict(execution.runtime) \/ ~IsDict(execution.git)
                    \/ ~IsDict(execution.dependencies) THEN "fail"
            ELSE "pass"

_check_uncertainty_reporting(context) ==
    LET results == tool_results(context)
    IN IF results = <<>> THEN "manual_review"
       ELSE IF Matched(results, uncertainty_tokens) # {} THEN "pass"
       ELSE "fail"

_check_safety_signal_capture(context) ==
    LET results == tool_results(context)
    IN IF results = <<>> THEN "manual_review"
       ELSE IF Matched(results, safety_tokens) # {} THEN "pass"
       ELSE "fail"

\* the manifest the builder writes always carries the five identifiers
_check_reproducibility_identifiers(context) ==
    IF IsNone(context.manifest) THEN "fail" ELSE "pass"

_check_no_prohibited_claims(context) ==
    LET lowered == objective(context) \o <<T("\n")>> \o planner_response_text(context)
    IN IF ProhibitedIn(lowered) # {} THEN "fail" ELSE "pass"

\* a faulty variant: a checklist report named in the manifest counts as
\* benchmark evidence
_benchmark_linkage_by_reports(context) ==
    IF IsNone(context.manifest) THEN "manual_review"
    ELSE LET files == IF IsList(context.manifest.files) THEN context.manifest.files.v
                      ELSE <<>>
             matched == {i \in DOMAIN files :
                            /\ IsStr(files[i])
                            /\ \/ BenchmarkIn(files[i].v) # {}
                               \/ Head(files[i].v) = T("checklists/")}
         IN IF matched # {} THEN "pass" ELSE "manual_review"

_check_benchmark_evidence_linkage(context) ==
    IF IsNone(context.manifest) THEN "manual_review"
    ELSE LET files == IF IsList(context.manifest.files) THEN context.manifest.files.v
                      ELSE <<>>
             matched == {i \in DOMAIN files : IsStr(files[i]) /\ BenchmarkIn(files[i].v) # {}}
         IN IF matched # {} THEN "pass" ELSE "manual_review"

_check_warning_review(context) ==
    IF manifest_warnings(context) # <<>> THEN "manual_review" ELSE "pass"

_manual_assay_strategy(context) == "manual_review"
_manual_experimental_controls(context) == "manual_review"
_manual_human_data_governance(context) == "manual_review"
_manual_translation_plan(context) == "manual_review"
_manual_change_control(context) == "manual_review"
_manual_benefit_risk(context) == "manual_review"
_manual_gxp_readiness(context) == "manual_review"
_manual_submission_mapping(context) == "manual_review"

(***************************************************************************)
(* checklist: the templates                                                *)
(***************************************************************************)
ChecklistItem(check_id, severity, automated) ==
    [check_id |-> check_id, severity |-> severity, automated |-> automated]

_CORE_TEMPLATE ==
    <<ChecklistItem("bundle_structure", "critical", TRUE),
      ChecklistItem("integrity_verification", "critical", TRUE),
      ChecklistItem("objective_defined", "critical", TRUE),
      ChecklistItem("executable_plan_present", "critical", TRUE),
      ChecklistItem("validation_first_policy", "high", TRUE),
      ChecklistItem("traceability_lineage", "high", TRUE),
      ChecklistItem("model_provenance", "high", TRUE),
      ChecklistItem("data_provenance", "high", TRUE),
      ChecklistItem("execution_provenance", "high", TRUE),
      ChecklistItem("tool_results_present", "high", TRUE),
      ChecklistItem("uncertainty_reporting", "medium", TRUE),
      ChecklistItem("safety_signal_capture", "high", TRUE),
      ChecklistItem("reproducibility_identifiers", "medium", TRUE),
      ChecklistItem("no_prohibited_claims", "critical", TRUE),
      ChecklistItem("warning_review", "medium", TRUE)>>

_DRUG_DISCOVERY_COMPREHENSIVE_TEMPLATE ==
    _CORE_TEMPLATE \o
    <<ChecklistItem("benchmark_evidence_linkage", "medium", TRUE),
      ChecklistItem("assay_strategy_documented", "high", FALSE),
      ChecklistItem("experimental_controls_documented", "high", FALSE),
      ChecklistItem("human_data_governance", "high", FALSE),
      ChecklistItem("translation_plan", "high", FALSE),
      ChecklistItem("change_control", "high", FALSE),
      ChecklistItem("benefit_risk_narrative", "high", FALSE),
      ChecklistItem("gxp_readiness", "medium", FALSE)>>

_FDA_CDER_AI_ML_TEMPLATE ==
    _DRUG_DISCOVERY_COMPREHENSIVE_TEMPLATE \o
    <<ChecklistItem("submission_mapping", "high", FALSE)>>

TemplateNames == {"core", "drug_discovery_comprehensive", "fda_cder_ai_ml"}

_TEMPLATES(template) ==
    CASE template = "core" -> _CORE_TEMPLATE
      [] template = "drug_discovery_comprehensive" -> _DRUG_DISCOVERY_COMPREHENSIVE_TEMPLATE
      [] template = "fda_cder_ai_ml" -> _FDA_CDER_AI_ML_TEMPLATE

\* check.evaluate(context)["status"]
CheckStatus(check_id, context) ==
    CASE check_id = "bundle_structure" -> _check_bundle_structure(context)
      [] check_id = "integrity_verification" -> _check_integrity_verification(context)
      [] check_id = "objective_defined" -> _check_objective_defined(context)
      [] check_id = "executable_plan_present" -> _check_executable_plan_present(context)
      [] check_id = "validation_first_policy" -> _check_validation_first_policy(context)
      [] check_id = "traceability_lineage" -> _check_traceability(context)
      [] check_id = "model_provenance" -> _check_model_provenance(context)
      [] check_id = "data_provenance" -> _check_data_provenance(context)
      [] check_id = "execution_provenance" -> _check_execution_provenance(context)
      [] check_id = "tool_results_present" -> _check_tool_results_present(context)
      [] check_id = "uncertainty_reporting" -> _check_uncertainty_reporting(context)
      [] check_id = "safety_signal_capture" -> _check_safety_signal_capture(context)
      [] check_id = "reproducibility_identifiers" -> _check_reproducibility_identifiers(context)
      [] check_id = "no_prohibited_claims" -> _check_no_prohibited_claims(context)
      [] check_id = "warning_review" -> _check_warning_review(context)
      [] check_id = "benchmark_evidence_linkage" -> _check_benchmark_evidence_linkage(context)
      [] check_id = "assay_strategy_documented" -> _manual_assay_strategy(context)
      [] check_id = "experimental_controls_documented" -> _manual_experimental_controls(context)
      [] check_id = "human_data_governance" -> _manual_human_data_governance(context)
      [] check_id = "translation_plan" -> _manual_translation_plan(context)
      [] check_id = "change_control" -> _manual_change_control(context)
      [] check_id = "benefit_risk_narrative" -> _manual_benefit_risk(context)
      [] check_id = "gxp_readiness" -> _manual_gxp_readiness(context)
      [] check_id = "submission_mapping" -> _manual_submission_mapping(context)

(***************************************************************************)
(* checklist._build_summary and checklist.evaluate_regulatory_checklist    *)
(***************************************************************************)
CountOf(items, Keep(_)) == Cardinality({i \in DOMAIN items : Keep(items[i])})

\* a faulty variant: the severity is not looked at
_count_any_severity(items, severity, status) ==
    CountOf(items, LAMBDA item : item.status = status)

_count(items, severity, status) ==
    CountOf(items, LAMBDA item : item.severity = severity /\ item.status = status)

BySeverity(items, severity) ==
    [pass |-> _count(items, severity, "pass"),
     fail |-> _count(items, severity, "fail"),
     manual_review |-> _count(items, severity, "manual_review")]

_build_summary(items) ==
    LET passed == CountOf(items, LAMBDA item : item.status = "pass")
        failed == CountOf(items, LAMBDA item : item.status = "fail")
        manual_review == CountOf(items, LAMBDA item : item.status = "manual_review")
        not_applicable == CountOf(items, LAMBDA item : item.status = "not_applicable")
        auto_failed == CountOf(items, LAMBDA item : item.automated /\ item.status = "fail")
        auto_manual ==
            CountOf(items, LAMBDA item : item.automated /\ item.status = "manual_review")
        blocking_failed ==
            CountOf(items, LAMBDA item : item.status = "fail"
                                         /\ item.severity \in {"critical", "high"})
    IN [t |-> "dict",
        total_checks |-> Len(items),
        passed |-> passed,
        failed |-> failed,
        manual_review |-> manual_review,
        not_applicable |-> not_applicable,
        auto_checks_passed |-> auto_failed = 0 /\ auto_manual = 0,
        submission_ready |-> failed = 0 /\ manual_review = 0,
        blocking_failed |-> blocking_failed,
        by_severity |-> [critical |-> BySeverity(items, "critical"),
                         high |-> BySeverity(items, "high"),
                         medium |-> BySeverity(items, "medium"),
                         low |-> BySeverity(items, "low")]]

\* lines 159-174: one item per check of the template
ItemsOf(checks, context) ==
    [i \in DOMAIN checks |->
        [id |-> checks[i].check_id,
         severity |-> checks[i].severity,
         automated |-> checks[i].automated,
         status |-> CheckStatus(checks[i].check_id, context)]]

\* lines 176-189
ReportOf(template, now, manifest, items) ==
    [raised |-> FALSE,
     t |-> "dict",
     template |-> template,
     generated_at |-> now,
     bundle_id |-> IF IsDict(manifest) THEN manifest.bundle_id ELSE None,
     summary |-> _build_summary(items),
     items |-> items]

EvaluationRaised(error, template) == [raised |-> TRUE, error |-> error, template |-> template]

\* lines 146-189: the embedded verification, then the checks
EvaluateIn(template, now, context) ==
    IF context.verification.raised THEN EvaluationRaised("decode", template)
    ELSE ReportOf(template, now, context.manifest, ItemsOf(_TEMPLATES(template), context))

\* a faulty variant: decisions.jsonl is read before the template is looked up
evaluate_after_reading(exists, dir_names, files, template, now) ==
    IF _load_decisions(files).raised THEN EvaluationRaised("decode", template)
    ELSE IF template \notin TemplateNames THEN EvaluationRaised("unknown_template", template)
    ELSE EvaluateIn(template, now, _ChecklistContext(exists, dir_names, files))

\* the report, or raised: the template is unknown, or reading decisions.jsonl
\* (in _load_decisions or in the embedded verification) fails to decode
evaluate_regulatory_checklist(exists, dir_names, files, template, now) ==
    IF template \notin TemplateNames THEN EvaluationRaised("unknown_template", template)
    ELSE IF _load_decisions(files).raised THEN EvaluationRaised("decode", template)
    ELSE EvaluateIn(template, now, _ChecklistContext(exists, dir_names, files))

(***************************************************************************)
(* bundle._generate_checklist_reports and bundle._enforce_checklist_policy *)
(***************************************************************************)
TemplateSummary(report) ==
    [template |-> report.template,
     total_checks |-> report.summary.total_checks,
     failed |-> report.summary.failed,
     manual_review |-> report.summary.manual_review,
     blocking_failed |-> report.summary.blocking_failed,
     auto_checks_passed |-> report.summary.auto_checks_passed,
     submission_ready |-> report.summary.submission_ready]

TemplatesWhere(reports, Keep(_)) ==
    SeqMap(LAMBDA report : report.template, SeqFilter(Keep, reports))

\* the checklist_summary of the final manifest
ChecklistSummary(reports) ==
    [t |-> "dict",
     templates |-> SeqMap(TemplateSummary, reports),
     aggregate |->
        [template_count |-> Len(reports),
         failed_templates |-> TemplatesWhere(reports, LAMBDA r : r.summary.failed > 0),
         manual_review_templates |->
            TemplatesWhere(reports, LAMBDA r : r.summary.manual_review > 0),
         blocking_failed_templates |->
            TemplatesWhere(reports, LAMBDA r : r.summary.blocking_failed > 0)]]

EmptyDict == [t |-> "dict"]

\* sorted(names) for template names
TemplateOrder == <<"core", "drug_discovery_comprehensive", "fda_cder_ai_ml">>

SortedNames(names) ==
    SeqFilter(LAMBDA name : name = TemplateOrder[1], names)
    \o SeqFilter(LAMBDA name : name = TemplateOrder[2], names)
    \o SeqFilter(LAMBDA name : name = TemplateOrder[3], names)

\* a faulty variant: only the first offending template is named
FirstOffenderOnly(names) == IF names = <<>> THEN <<>> ELSE <<names[1]>>

Offenders(names) == SortedNames(names)

\* the messages of the ValueError raised, <<>> when the policy lets the
\* build go on
_enforce_checklist_policy(reports, strict, require_no_manual_review) ==
    IF ~strict /\ ~require_no_manual_review THEN <<>>
    ELSE LET failed_templates ==
                 TemplatesWhere(reports, LAMBDA r : strict /\ r.summary.failed > 0)
             manual_templates ==
                 TemplatesWhere(reports, LAMBDA r : require_no_manual_review
                                                    /\ r.summary.manual_review > 0)
         IN (IF failed_templates # <<>>
             THEN <<[mode |-> "strict", templates |-> Offenders(failed_templates)]>>
             ELSE <<>>)
            \o (IF manual_templates # <<>>
                THEN <<[mode |-> "no_manual_review",
                        templates |-> Offenders(manual_templates)]>>
                ELSE <<>>)

(***************************************************************************)
(* Runs of the pure functions: the arguments are drawn by Init, one action *)
(* applies the function.                                                   *)
(***************************************************************************)
IdleBuild ==
    /\ outExists = FALSE
    /\ fs = <<>>
    /\ dirs = {}
    /\ pc = "idle"
    /\ inp = None
    /\ loc = None
    /\ result = None
    /\ tampered = None
    /\ obs = None

RunIdA == <<T("a")>>
RunIdB == <<T("b")>>
RunIds == SeqsUpTo({T("a"), T(" ")}, MaxIdLen)

ObjectiveDesign == JStr(<<T("Design"), T(" "), T("KRAS")>>)
IterItems ==
    {JNum(1), IterationItem(SubObject("policy"), None),
     IterationItem(SubObject("policy"), SubObject("critic"))}
ResItems == {JNum(1), ResultItem(JStr(ValidateTool), None)}

ExtractPayloads ==
    {Payload(None, o, None, p, i, f, r, w) :
        o \in {None, ObjectiveDesign, JStr(<<T(" ")>>), JNum(5)},
        p \in {None, PlanVF, JNum(1)},
        i \in {None} \cup {JList(s) : s \in SeqsUpTo(IterItems, MaxIterations)},
        f \in {None, PlanVF, PlanFoldFirst},
        r \in {None} \cup {JList(s) : s \in SeqsUpTo(ResItems, MaxResults)},
        w \in {None, JList(<<>>), JList(<<JStr(<<T("w")>>)>>)}}

LongTextLen == 1500   \* characters of the long strings of a campaign record
LongText == JStr(<<Fill(LongTextLen)>>)

\* records with long values where a preview is taken from
PreviewPayloads ==
    {Payload(None, o, t, p, None, None, r, w) :
        o \in {None, LongText},
        t \in {None, LongText},
        p \in {None, Plan(JList(<<Call(LongText)>>))},
        r \in {None, JList(<<ResultItem(JStr(FoldTool), Output(<<"score">>, LongText, None))>>)},
        w \in {None, JList(<<LongText>>)}}

IdPayloads ==
    {Payload(None, ObjectiveDesign, None, PlanVF, None, None, r, None) :
        r \in {None, JList(<<ResultItem(JStr(ValidateTool), None)>>),
                JList(<<ResultItem(None, None), ResultItem(JStr(FoldTool), None)>>)}}

InitExtract ==
    /\ scope = "extract"
    /\ clock = 0
    /\ IdleBuild
    /\ \/ xin \in [fn : {"extract"}, payload : ExtractPayloads, run1 : {RunIdA},
                   run2 : {RunIdB}]
       \/ xin \in [fn : {"extract"}, payload : IdPayloads, run1 : RunIds, run2 : RunIds]
       \/ xin \in [fn : {"extract"}, payload : PreviewPayloads, run1 : {RunIdA},
                   run2 : {RunIdB}]
    /\ xout = None

\* extract twice with run1 (at two readings of the clock) and once with run2,
\* and infer the run id of the record
ExtractDecisions ==
    /\ scope = "extract"
    /\ xout = None
    /\ \E later \in {clock, clock + 1} :
          /\ clock' = later
          /\ xout' = [first |-> extract_decisions_from_campaign(xin.payload, xin.run1, clock),
                      again |-> extract_decisions_from_campaign(xin.payload, xin.run1, later),
                      other |-> extract_decisions_from_campaign(xin.payload, xin.run2, later),
                      inferred |-> infer_campaign_run_id(xin.payload, SourcePath)]
    /\ UNCHANGED <<scope, outExists, fs, dirs, pc, inp, loc, result, tampered, obs, xin>>

NextExtract == ExtractDecisions

SpecExtract == InitExtract /\ [][NextExtract]_vars

(***************************************************************************)
(* bundle.build_evidence_bundle, in the steps at which it can stop         *)
(***************************************************************************)
_DEFAULT_CHECKLIST_TEMPLATES == <<"drug_discovery_comprehensive">>

\* list(checklist_templates or _DEFAULT_CHECKLIST_TEMPLATES)
resolved_checklist_templates(templates) ==
    IF templates = <<>> THEN _DEFAULT_CHECKLIST_TEMPLATES ELSE templates

Raised(error, messages) == [kind |-> "raised", error |-> error, messages |-> messages]
Returned(manifest) == [kind |-> "returned", manifest |-> manifest]

\* a faulty variant: include_checklists is ignored
ChecklistsAlways(include_checklists, templates) == templates # <<>>

\* line 154: `include_checklists and resolved_checklist_templates`
ChecklistsWanted(include_checklists, templates) == include_checklists /\ templates # <<>>

Building == pc \in {"prepared", "bootstrap", "checklists", "gated"}

\* a faulty variant: the old content is kept when overwrite is set
KeptTree(old, empty, overwrite) == old

\* lines 75-76: shutil.rmtree(output_dir) when overwrite is set; `old` is what
\* the directory holds (its files, or its subdirectories), `empty` nothing
RemovedTree(old, empty, overwrite) == IF overwrite THEN empty ELSE old

\* a campaign record given by a path inside the output directory carries the
\* path as `inside`; its content is what the directory holds there
RecordInside(record) == "inside" \in DOMAIN record

\* line 67: campaign_run_path.exists() and is_file()
RecordExists(record, exists, files) ==
    IF RecordInside(record) THEN exists /\ record.inside \in DOMAIN files
    ELSE record.exists

\* a faulty variant: the record is read as it was when the build was called
ReadRecordAsGiven(record, files) ==
    [raised |-> read_json_object(record.content).raised,
     v |-> read_json_object(record.content).v, vanished |-> FALSE]

\* line 82: read_json_object(campaign_run_path), on the file as it is now;
\* `vanished` when the file is no longer there (FileNotFoundError)
ReadRecord(record, files) ==
    IF RecordInside(record)
    THEN IF record.inside \in DOMAIN files
         THEN [raised |-> read_json_object(files[record.inside]).raised,
               v |-> read_json_object(files[record.inside]).v, vanished |-> FALSE]
         ELSE [raised |-> TRUE, v |-> None, vanished |-> TRUE]
    ELSE [raised |-> read_json_object(record.content).raised,
          v |-> read_json_object(record.content).v, vanished |-> FALSE]

\* lines 61-80: the preconditions, the removal of an old directory, and the
\* creation of the output and artifacts directories
BuildStart ==
    /\ scope = "build" /\ pc = "idle" /\ obs = None
    /\ UNCHANGED obs
    /\ IF ~RecordExists(inp.record, outExists, fs)
       THEN /\ pc' = "failed"
            /\ result' = Raised("record_missing", <<>>)
            /\ UNCHANGED <<outExists, fs, dirs>>
       ELSE IF outExists /\ (DOMAIN fs # {} \/ dirs # {}) /\ ~inp.overwrite
       THEN /\ pc' = "failed"
            /\ result' = Raised("not_empty", <<>>)
            /\ UNCHANGED <<outExists, fs, dirs>>
       ELSE /\ pc' = "prepared"
            /\ outExists' = TRUE
            /\ fs' = RemovedTree(fs, <<>>, inp.overwrite)
            /\ dirs' = RemovedTree(dirs, {}, inp.overwrite) \cup {"artifacts"}
            /\ UNCHANGED result
    /\ UNCHANGED <<scope, clock, inp, loc, tampered, xin, xout>>

\* lines 128-150: the bootstrap manifest and the checksum file are written;
\* the result is the directory and the local variables of the build
AssembleResult(build, run, decisions, models, data, arts, bootstrap, written) ==
    [fs |-> _write_checksums(WithFile(written, P_manifest, Content("json", bootstrap))),
     loc |-> [campaign_run_id |-> run, bundle_id |-> bootstrap.bundle_id,
              decisions |-> decisions, models |-> models,
              datasets |-> data.records, artifacts |-> arts.refs,
              warnings |-> data.warnings \o arts.warnings, bootstrap |-> bootstrap,
              todo |-> resolved_checklist_templates(build.templates),
              reports |-> <<>>, rel_paths |-> <<>>, manifests_written |-> 1]]

\* lines 84, 130-148: the bundle id and the bootstrap manifest
AssembleManifest(build, now, run, decisions, models, data, arts, written) ==
    AssembleResult(build, run, decisions, models, data, arts,
        EvidenceBundleManifest(JStr(stable_id(<<<<T("bundle")>>, run, IntToStr(now)>>)),
                               now, run, decisions, arts.refs, models, data.records,
                               _bundle_file_list(written), <<>>, EmptyDict,
                               data.warnings \o arts.warnings),
        written)

\* lines 114-126: the lineage graph, decisions.jsonl and lineage.json
AssembleFiles(files, build, now, run, decisions, models, data, arts) ==
    AssembleManifest(build, now, run, decisions, models, data, arts,
        WithFile(WithFile(WithFiles(files, data.copied \o arts.copied),
                          P_decisions, Content("jsonl", decisions)),
                 P_lineage,
                 Content("json", build_lineage_graph(run, decisions, arts.refs, models,
                                                     data.records))))

\* lines 86-107: decisions, models, and the copies of manifests and artifacts
Assemble(files, build, now, payload, run) ==
    AssembleFiles(files, build, now, run,
                  extract_decisions_from_campaign(payload, run, now),
                  extract_model_provenance(payload, build.model_name, None),
                  _copy_and_load_data_manifests(build.manifests),
                  _copy_artifacts(build.record, build.extras))

\* lines 82-150: read the record, derive decisions, models, datasets and the
\* lineage graph, copy the files, write decisions.jsonl, lineage.json, the
\* bootstrap manifest and the checksum file
BuildAssemble ==
    /\ scope = "build" /\ pc = "prepared"
    /\ \E read \in {ReadRecord(inp.record, fs)} :
          IF read.raised
          THEN /\ pc' = "failed"
               /\ result' = Raised(IF read.vanished THEN "record_vanished"
                                   ELSE "invalid_record", <<>>)
               /\ UNCHANGED <<fs, dirs, loc>>
          ELSE \E out \in {Assemble(fs, inp, clock, read.v,
                                    infer_campaign_run_id(read.v, SourcePath))} :
               /\ pc' = "bootstrap"
               /\ fs' = out.fs
               /\ dirs' = dirs \cup (IF inp.manifests # <<>>
                                     THEN {"artifacts/data_manifests"} ELSE {})
                               \cup (IF inp.extras # <<>> THEN {"artifacts/extras"} ELSE {})
               /\ loc' = out.loc
               /\ UNCHANGED result
    /\ clock' = clock + 1
    /\ UNCHANGED <<scope, outExists, inp, tampered, obs, xin, xout>>

\* lines 502-533: create checklists/ and evaluate and write the next template
BuildChecklist ==
    /\ scope = "build" /\ pc \in {"bootstrap", "checklists"}
    /\ ChecklistsWanted(inp.include_checklists, resolved_checklist_templates(inp.templates))
    /\ loc.todo # <<>>
    /\ \E report \in {evaluate_regulatory_checklist(outExists, dirs \cup {"checklists"}, fs,
                                                     Head(loc.todo), clock)} :
       LET json_path == ChecklistPath(Head(loc.todo), ".json")
           md_path == ChecklistPath(Head(loc.todo), ".md")
       IN /\ dirs' = dirs \cup {"checklists"}
          /\ IF report.raised
             THEN /\ pc' = "failed"
                  /\ result' = Raised(report.error, <<>>)
                  /\ UNCHANGED <<fs, loc>>
             ELSE /\ pc' = "checklists"
                  /\ fs' = WithFile(WithFile(fs, json_path, Content("json", report)),
                                    md_path, Content("md", report))
                  /\ loc' = [loc EXCEPT !.todo = Tail(@),
                                        !.reports = Append(@, report),
                                        !.rel_paths = @ \o <<json_path, md_path>>]
                  /\ UNCHANGED result
    /\ clock' = clock + 1
    /\ UNCHANGED <<scope, outExists, inp, tampered, obs, xin, xout>>

\* lines 159-163: the policy gate over the reports of all templates
BuildPolicy ==
    /\ scope = "build" /\ pc = "checklists" /\ loc.todo = <<>>
    /\ \E messages \in {_enforce_checklist_policy(loc.reports, inp.strict, inp.no_manual)} :
          IF messages # <<>>
          THEN /\ pc' = "failed"
               /\ result' = Raised("policy", messages)
          ELSE /\ pc' = "gated"
               /\ UNCHANGED result
    /\ UNCHANGED <<scope, clock, outExists, fs, dirs, inp, loc, tampered, obs, xin, xout>>

\* a faulty variant: the final manifest is stamped with the time of its writing
BuildFinalRestamped ==
    /\ scope = "build"
    /\ \/ pc = "gated"
       \/ /\ pc = "bootstrap"
          /\ ~ChecklistsWanted(inp.include_checklists,
                               resolved_checklist_templates(inp.templates))
    /\ \E final \in {EvidenceBundleManifest(
                        loc.bundle_id, clock, loc.campaign_run_id,
                        loc.decisions, loc.artifacts, loc.models, loc.datasets,
                        _bundle_file_list(fs),
                        IF pc = "gated" THEN SeqMap(JStr, loc.rel_paths) ELSE <<>>,
                        IF pc = "gated" THEN ChecklistSummary(loc.reports) ELSE EmptyDict,
                        loc.warnings)} :
          /\ fs' = _write_checksums(WithFile(fs, P_manifest, Content("json", final)))
          /\ result' = Returned(final)
          /\ loc' = [loc EXCEPT !.manifests_written = @ + 1]
    /\ pc' = "done"
    /\ clock' = clock + 1
    /\ UNCHANGED <<scope, outExists, dirs, inp, tampered, obs, xin, xout>>

\* lines 165-187: write the final manifest and the checksum file, and return
BuildFinal ==
    /\ scope = "build"
    /\ \/ pc = "gated"
       \/ /\ pc = "bootstrap"
          /\ ~ChecklistsWanted(inp.include_checklists,
                               resolved_checklist_templates(inp.templates))
    /\ \E final \in {EvidenceBundleManifest(
                        loc.bundle_id, loc.bootstrap.created_at, loc.campaign_run_id,
                        loc.decisions, loc.artifacts, loc.models, loc.datasets,
                        _bundle_file_list(fs),
                        IF pc = "gated" THEN SeqMap(JStr, loc.rel_paths) ELSE <<>>,
                        IF pc = "gated" THEN ChecklistSummary(loc.reports) ELSE EmptyDict,
                        loc.warnings)} :
          /\ fs' = _write_checksums(WithFile(fs, P_manifest, Content("json", final)))
          /\ result' = Returned(final)
          /\ loc' = [loc EXCEPT !.manifests_written = @ + 1]
    /\ pc' = "done"
    /\ clock' = clock + 1
    /\ UNCHANGED <<scope, outExists, dirs, inp, tampered, obs, xin, xout>>

(***************************************************************************)
(* What is done to and asked of the directory when no build is running     *)
(***************************************************************************)
TamperModes == {"append", "binary", "delete"}

\* ways the first line of checksums.sha256 is rewritten by hand
ChecksumLineEdits == {"wide_separator", "single_space", "short_digest", "nonhex_digest"}

\* 64 characters that are not all hexadecimal digits ("z" * 64)
NonHexDigest == [z |-> 64]

\* the text of checksums.sha256 with its first line "<digest>  <path>" edited:
\* three spaces, one space, a digest of 3 characters, a digest of 64 letters z
EditFirstChecksumLine(text, mode) ==
    CASE mode = "wide_separator" -> <<Head(text), T(" ")>> \o Tail(text)
      [] mode = "single_space" -> <<Head(text)>> \o SubSeq(text, 3, Len(text))
      [] mode = "short_digest" -> <<T("abc")>> \o Tail(text)
      [] mode = "nonhex_digest" -> <<NonHexDigest>> \o Tail(text)

\* ways decision_count of manifest.json is edited by hand, the checksum file
\* being written again after the edit
ManifestCountEdits == {"count_removed", "count_text", "count_raised"}

EditDecisionCount(manifest, mode) ==
    CASE mode = "count_removed" -> [manifest EXCEPT !.decision_count = None]
      [] mode = "count_text" ->
            [manifest EXCEPT !.decision_count = JStr(IntToStr(@.v))]
      [] mode = "count_raised" -> [manifest EXCEPT !.decision_count = JNum(@.v + 1)]

\* one file of a finished bundle is changed or deleted by somebody else, or
\* a file is put next to the others
Tamper ==
    /\ scope = "build" /\ pc = "done" /\ tampered = None /\ obs = None
    /\ \/ \E path \in DOMAIN fs, mode \in TamperModes :
             /\ tampered' = [path |-> path, mode |-> mode]
             /\ fs' = CASE mode = "append" ->
                             [fs EXCEPT ![path] = [@ EXCEPT !.junk = @ + 1]]
                        [] mode = "binary" ->
                             [fs EXCEPT ![path] = [kind |-> "bin", v |-> <<>>, junk |-> 0]]
                        [] mode = "delete" ->
                             [p \in DOMAIN fs \ {path} |-> fs[p]]
       \/ \E mode \in ChecksumLineEdits :
             /\ tampered' = [path |-> P_checksums, mode |-> mode]
             /\ fs' = [fs EXCEPT ![P_checksums] =
                          [@ EXCEPT !.v = EditFirstChecksumLine(@, mode)]]
       \/ \E mode \in ManifestCountEdits :
             /\ tampered' = [path |-> P_manifest, mode |-> mode]
             /\ fs' = _write_checksums(
                          [fs EXCEPT ![P_manifest] =
                              [@ EXCEPT !.v = EditDecisionCount(@, mode)]])
       \/ /\ tampered' = [path |-> P_notes, mode |-> "file_added"]
          /\ fs' = WithFile(fs, P_notes, Content("text", <<T("hello")>>))
    /\ UNCHANGED <<scope, clock, outExists, dirs, pc, inp, loc, result, obs, xin, xout>>

Verify ==
    /\ scope = "build" /\ ~Building /\ obs = None
    /\ obs' = [op |-> "verify", result |-> verify_evidence_bundle(outExists, fs)]
    /\ UNCHANGED <<scope, clock, outExists, fs, dirs, pc, inp, loc, result, tampered,
                   xin, xout>>

Evaluate ==
    /\ scope = "build" /\ ~Building /\ obs = None
    /\ \E template \in TemplateNames \cup {"bogus"} :
          obs' = [op |-> "evaluate", template |-> template,
                  result |-> evaluate_regulatory_checklist(outExists, dirs, fs, template,
                                                           clock)]
    /\ UNCHANGED <<scope, clock, outExists, fs, dirs, pc, inp, loc, result, tampered,
                   xin, xout>>

(***************************************************************************)
(* The builds the model runs: the arguments and the state of the output    *)
(* directory are drawn by Init, one family of builds per concern.          *)
(***************************************************************************)
MaxManifests == 1      \* longest list of data manifests drawn for a build
MaxExtras == 1         \* longest list of extra artifacts drawn for a build

NameM == <<T("m")>>
NameMSpace == <<T("m"), T(" ")>>
NameE == <<T("e")>>
NameESpace == <<T("e"), T(" ")>>
NameBenchmark == <<T("benchmark")>>

ValidManifest(name) == Source(name, TRUE, Content("json", DataManifest(JStr(<<T("ds")>>))))
NoIdManifest == Source(NameM, TRUE, Content("json", DataManifest(None)))
MissingManifest == Source(NameM, FALSE, Content("text", <<>>))
ManifestChoices == {ValidManifest(NameM), ValidManifest(NameMSpace), NoIdManifest,
                    MissingManifest}

Extra(name) == Source(name, TRUE, Content("text", <<T("x")>>))
MissingExtra == Source(NameE, FALSE, Content("text", <<>>))
ExtraChoices == {Extra(NameE), Extra(NameESpace), Extra(NameBenchmark), MissingExtra}

GoodOutput == Output(<<"confidence", "admet">>, None, None)
GoodResult == ResultItem(JStr(ValidateTool), GoodOutput)
PlainResult == ResultItem(JStr(FoldTool), Output(<<"score">>, JStr(<<T("gpu")>>), None))
NoToolResult == ResultItem(None, GoodOutput)
ObjectiveCure == JStr(<<T("guaranteed cure")>>)

PayloadGood ==
    Payload(JStr(RunIdA), ObjectiveDesign, None, PlanVF, None, None, JList(<<GoodResult>>),
            None)
PayloadBare == Payload(None, None, None, PlanVF, None, None, None, None)
PayloadEmpty == Payload(None, None, None, None, None, None, None, None)
\* the plan starts with the validation, the final plan does not
PayloadReplanned ==
    Payload(JStr(RunIdA), ObjectiveDesign, None, PlanVF, None, PlanFoldFirst,
            JList(<<GoodResult>>), None)
PayloadRich ==
    Payload(JStr(<<T("a"), T(" ")>>), ObjectiveDesign, JStr(<<T("ok")>>), PlanFoldFirst,
            JList(<<IterationItem(SubObject("policy"), SubObject("critic"))>>), PlanVF,
            JList(<<GoodResult, PlainResult>>), JList(<<JStr(<<T("w")>>)>>))

RecordPayloads ==
    {Payload(JStr(RunIdA), o, None, p, None, None, r, None) :
        o \in {None, ObjectiveDesign, ObjectiveCure},
        p \in {PlanVF, PlanFoldFirst},
        r \in {None, JList(<<GoodResult>>), JList(<<PlainResult>>),
               JList(<<NoToolResult>>)}}
    \cup {PayloadBare, PayloadEmpty, PayloadRich, PayloadReplanned}

RecordName == <<T("campaign_run.json")>>
RecordOf(payload) == Source(RecordName, TRUE, Content("json", payload))
MissingRecord == Source(RecordName, FALSE, Content("text", <<>>))
ListRecord == Source(RecordName, TRUE, Content("json", JList(<<>>)))

TemplateChoices ==
    {<<>>, <<"core">>, <<"fda_cder_ai_ml">>, <<"core", "fda_cder_ai_ml">>,
     <<"fda_cder_ai_ml", "core">>, <<"bogus">>, <<"core", "bogus">>}

\* the builds that vary the campaign record
RecordBuilds ==
    [record : {RecordOf(payload) : payload \in RecordPayloads},
     manifests : {<<>>, <<ValidManifest(NameM)>>},
     extras : {<<>>},
     model_name : {None, JStr(<<T("override")>>)},
     include_checklists : {TRUE},
     templates : {<<"core">>},
     strict : {FALSE}, no_manual : {FALSE}, overwrite : {FALSE}]

\* the builds that vary the files handed in
FileBuilds ==
    [record : {RecordOf(PayloadGood)},
     manifests : SeqsUpTo(ManifestChoices, MaxManifests),
     extras : SeqsUpTo(ExtraChoices, MaxExtras),
     model_name : {None},
     include_checklists : {TRUE},
     templates : {<<"core">>},
     strict : {FALSE}, no_manual : {FALSE}, overwrite : {FALSE}]

\* the builds that vary the checklist options
PolicyBuilds ==
    [record : {RecordOf(PayloadGood), RecordOf(PayloadBare)},
     manifests : {<<>>, <<ValidManifest(NameM)>>},
     extras : {<<>>},
     model_name : {None},
     include_checklists : BOOLEAN,
     templates : TemplateChoices,
     strict : BOOLEAN, no_manual : BOOLEAN, overwrite : {FALSE}]

\* the builds that vary the record file and the state of the directory
DirectoryBuilds ==
    [record : {RecordOf(PayloadGood), MissingRecord, ListRecord},
     manifests : {<<>>},
     extras : {<<>>},
     model_name : {None},
     include_checklists : BOOLEAN,
     templates : {<<"core">>},
     strict : {FALSE}, no_manual : {FALSE}, overwrite : BOOLEAN]

\* the builds that put the policy gate over bundles with extra artifacts
StrictFileBuilds ==
    [record : {RecordOf(PayloadGood)},
     manifests : {<<>>, <<ValidManifest(NameM)>>},
     extras : {<<Extra(NameE)>>, <<Extra(NameESpace)>>},
     model_name : {None},
     include_checklists : {TRUE},
     templates : {<<"core">>, <<"core", "fda_cder_ai_ml">>},
     strict : {TRUE}, no_manual : BOOLEAN, overwrite : {FALSE}]

StaleFiles == [p \in {P_stale} |-> Content("text", <<T("old")>>)]

\* a campaign record that is the copy kept in the output directory
InsideRecord ==
    [name |-> RecordName, exists |-> TRUE, content |-> Content("json", PayloadGood),
     inside |-> P_campaign]

\* an earlier bundle in the output directory
PreviousFiles ==
    [p \in {P_campaign, P_stale} |->
        IF p = P_campaign THEN Content("json", PayloadGood) ELSE Content("text", <<T("old")>>)]

\* the builds whose record lies in the output directory
InsideBuilds ==
    [record : {InsideRecord},
     manifests : {<<>>},
     extras : {<<>>},
     model_name : {None},
     include_checklists : {TRUE},
     templates : {<<"core">>},
     strict : {FALSE}, no_manual : {FALSE}, overwrite : BOOLEAN]

InitBuild ==
    /\ scope = "build"
    /\ clock = 0
    /\ pc = "idle"
    /\ loc = None /\ result = None /\ tampered = None /\ obs = None
    /\ xin = None /\ xout = None
    /\ \/ /\ \/ inp \in RecordBuilds
             \/ inp \in FileBuilds
             \/ inp \in PolicyBuilds
             \/ inp \in StrictFileBuilds
          /\ outExists = FALSE /\ fs = <<>> /\ dirs = {}
       \/ /\ inp \in DirectoryBuilds
          /\ \/ outExists = FALSE /\ fs = <<>> /\ dirs = {}
             \/ outExists = TRUE /\ fs = <<>> /\ dirs = {}
             \/ outExists = TRUE /\ fs = StaleFiles /\ dirs = {"checklists"}
       \/ /\ inp \in InsideBuilds
          /\ outExists = TRUE /\ fs = PreviousFiles /\ dirs = {"artifacts", "checklists"}

NextBuild ==
    \/ BuildStart
    \/ BuildAssemble
    \/ BuildChecklist
    \/ BuildPolicy
    \/ BuildFinal
    \/ Tamper
    \/ Verify
    \/ Evaluate

Init == InitBuild

Next == NextBuild

Spec == Init /\ [][Next]_vars

(***************************************************************************)
(* Runs of build_lineage_graph on decisions given in any order             *)
(***************************************************************************)
MaxLineageDecisions == 3   \* most decisions handed to build_lineage_graph

LineageDecisionChoices ==
    {_decision(RunIdA, step, "tool_result", "executor", JStr(ValidateTool), None, NoRefs,
               NoMeta, 0) :
        step \in 1..MaxLineageDecisions}
    \cup {_decision(RunIdA, step, "note", "system", None, None, NoRefs, NoMeta, 0) :
             step \in 1..MaxLineageDecisions}

LineageInputs ==
    [fn : {"lineage"},
     run : {RunIdA},
     decisions : SeqsUpTo(LineageDecisionChoices, MaxLineageDecisions),
     artifacts : {<<>>, <<ArtifactRef(<<T("campaign_run")>>, "campaign_run", P_campaign,
                                      Content("json", PayloadBare))>>},
     models : {<<>>, <<ModelProvenance(JStr(<<T("refua-validator")>>), None,
                                       JStr(ValidateTool), None)>>},
     datasets : {<<>>, <<DataProvenance(<<T("ds")>>, None, NameM)>>}]

InitLineage ==
    /\ scope = "lineage"
    /\ clock = 0
    /\ IdleBuild
    /\ xin \in LineageInputs
    /\ xout = None

BuildLineage ==
    /\ scope = "lineage"
    /\ xout = None
    /\ xout' = [graph |-> build_lineage_graph(xin.run, xin.decisions, xin.artifacts,
                                              xin.models, xin.datasets)]
    /\ UNCHANGED <<scope, clock, outExists, fs, dirs, pc, inp, loc, result, tampered, obs,
                   xin>>

NextLineage == BuildLineage

SpecLineage == InitLineage /\ [][NextLineage]_vars

(***************************************************************************)
(* Runs of checklist._build_summary on lists of evaluated items            *)
(***************************************************************************)
MaxSummaryItems == 2   \* most items handed to _build_summary

Severities == {"critical", "high", "medium", "low"}
Statuses == {"pass", "fail", "manual_review", "not_applicable"}

SummaryItemChoices ==
    [id : {"check"}, severity : Severities, automated : BOOLEAN, status : Statuses]

InitSummary ==
    /\ scope = "summary"
    /\ clock = 0
    /\ IdleBuild
    /\ xin \in [fn : {"summary"}, items : SeqsUpTo(SummaryItemChoices, MaxSummaryItems)]
    /\ xout = None

BuildSummary ==
    /\ scope = "summary"
    /\ xout = None
    /\ xout' = [summary |-> _build_summary(xin.items)]
    /\ UNCHANGED <<scope, clock, outExists, fs, dirs, pc, inp, loc, result, tampered, obs,
                   xin>>

NextSummary == BuildSummary

SpecSummary == InitSummary /\ [][NextSummary]_vars

(***************************************************************************)
(* Builds given lists of data manifests and extra artifacts, run to their  *)
(* end and left alone                                                      *)
(***************************************************************************)
MaxCopyManifests == 2   \* longest list of data manifests of these builds
MaxCopyExtras == 2      \* longest list of extra artifacts of these builds

BlankIdManifest == Source(NameM, TRUE, Content("json", DataManifest(JStr(<<T(" ")>>))))
\* a JSON object followed by text that is not JSON
UnparsableManifest ==
    Source(NameM, TRUE, [Content("json", DataManifest(JStr(<<T("ds")>>))) EXCEPT !.junk = 1])
ListManifest == Source(NameM, TRUE, Content("json", JList(<<>>)))
BinaryManifest == Source(NameM, TRUE, [kind |-> "bin", v |-> <<>>, junk |-> 0])

CopyManifestChoices ==
    {ValidManifest(NameM), NoIdManifest, BlankIdManifest, UnparsableManifest, ListManifest,
     BinaryManifest, MissingManifest}

CopyExtraChoices == {Extra(NameE), MissingExtra}

CopyBuilds ==
    [record : {RecordOf(PayloadGood)},
     manifests : SeqsUpTo(CopyManifestChoices, MaxCopyManifests),
     extras : SeqsUpTo(CopyExtraChoices, MaxCopyExtras),
     model_name : {None},
     include_checklists : {TRUE},
     templates : {<<"core">>},
     strict : {FALSE}, no_manual : {FALSE}, overwrite : {FALSE}]

InitCopies ==
    /\ scope = "build"
    /\ clock = 0
    /\ pc = "idle"
    /\ loc = None /\ result = None /\ tampered = None /\ obs = None
    /\ xin = None /\ xout = None
    /\ inp \in CopyBuilds
    /\ outExists = FALSE /\ fs = <<>> /\ dirs = {}

NextCopies ==
    \/ BuildStart
    \/ BuildAssemble
    \/ BuildChecklist
    \/ BuildPolicy
    \/ BuildFinal

SpecCopies == InitCopies /\ [][NextCopies]_vars

(***************************************************************************)
(* Runs of extractors.extract_model_provenance on lists of results         *)
(***************************************************************************)
MaxModelResults == 3   \* longest `results` list of these runs

BackendGpu == JStr(<<T("gpu")>>)

ModelResItems ==
    {JNum(1),
     ResultItem(None, Output(<<>>, BackendGpu, None)),
     ResultItem(JStr(ValidateTool), Output(<<>>, None, None)),
     ResultItem(JStr(FoldTool), Output(<<>>, BackendGpu, None)),
     ResultItem(JStr(FoldTool), Output(<<"score">>, BackendGpu, None)),
     ResultItem(JStr(FoldTool), Output(<<>>, BackendGpu, JStr(<<T("v1")>>))),
     ResultItem(JStr(<<T("custom_tool")>>), None)}

ModelPayloads ==
    {Payload(None, None, None, None, None, None, r, None) :
        r \in {None} \cup {JList(items) : items \in SeqsUpTo(ModelResItems, MaxModelResults)}}

InitModels ==
    /\ scope = "models"
    /\ clock = 0
    /\ IdleBuild
    /\ xin \in [fn : {"models"}, payload : ModelPayloads,
                override_name : {None, JStr(<<T("override")>>)},
                override_version : {None, JStr(<<T("v2")>>)}]
    /\ xout = None

ExtractModels ==
    /\ scope = "models"
    /\ xout = None
    /\ xout' = [models |-> extract_model_provenance(xin.payload, xin.override_name,
                                                    xin.override_version)]
    /\ UNCHANGED <<scope, clock, outExists, fs, dirs, pc, inp, loc, result, tampered, obs,
                   xin>>

NextModels == ExtractModels

SpecModels == InitModels /\ [][NextModels]_vars

(***************************************************************************)
(* Two builds running at the same time.  Each builder has its own position *)
(* and local variables; the directories are shared.  The precondition      *)
(* check (lines 67-73) and the first write (lines 75-80) are separate      *)
(* steps of a builder.                                                     *)
(***************************************************************************)
Builders == {1, 2}
OutputDirs == {"out_a", "out_b"}

RaceBuilds ==
    [record : {RecordOf(PayloadGood)},
     manifests : {<<>>},
     extras : {<<>>, <<Extra(NameESpace)>>},
     model_name : {None},
     include_checklists : BOOLEAN,
     templates : {<<"core">>},
     strict : {FALSE}, no_manual : {FALSE}, overwrite : {FALSE},
     dir : OutputDirs]

InitRace ==
    /\ scope = "race"
    /\ clock = 0
    /\ inp \in [Builders -> RaceBuilds]
    /\ inp[1].dir = "out_a"
    /\ pc = [b \in Builders |-> "idle"]
    /\ loc = [b \in Builders |-> None]
    /\ result = [b \in Builders |-> None]
    /\ outExists \in [OutputDirs -> BOOLEAN]
    /\ fs = [d \in OutputDirs |-> <<>>]
    /\ dirs = [d \in OutputDirs |-> {}]
    /\ tampered = None /\ obs = None /\ xin = None /\ xout = None

\* lines 67-73: the record exists, and the output directory is absent or empty
\* unless overwrite is set
RaceCheck(b) ==
    /\ scope = "race" /\ pc[b] = "idle"
    /\ IF ~inp[b].record.exists
       THEN /\ pc' = [pc EXCEPT ![b] = "failed"]
            /\ result' = [result EXCEPT ![b] = Raised("record_missing", <<>>)]
       ELSE IF /\ outExists[inp[b].dir]
               /\ (DOMAIN fs[inp[b].dir] # {} \/ dirs[inp[b].dir] # {})
               /\ ~inp[b].overwrite
       THEN /\ pc' = [pc EXCEPT ![b] = "failed"]
            /\ result' = [result EXCEPT ![b] = Raised("not_empty", <<>>)]
       ELSE /\ pc' = [pc EXCEPT ![b] = "checked"]
            /\ UNCHANGED result
    /\ UNCHANGED <<scope, clock, outExists, fs, dirs, inp, loc, tampered, obs, xin, xout>>

\* lines 75-80: the removal of an old directory and the creation of the
\* output and artifacts directories
RacePrepare(b) ==
    /\ scope = "race" /\ pc[b] = "checked"
    /\ pc' = [pc EXCEPT ![b] = "prepared"]
    /\ outExists' = [outExists EXCEPT ![inp[b].dir] = TRUE]
    /\ fs' = [fs EXCEPT ![inp[b].dir] = RemovedTree(@, <<>>, inp[b].overwrite)]
    /\ dirs' = [dirs EXCEPT ![inp[b].dir] =
                    RemovedTree(@, {}, inp[b].overwrite) \cup {"artifacts"}]
    /\ UNCHANGED <<scope, clock, inp, loc, result, tampered, obs, xin, xout>>

\* lines 82-150, as BuildAssemble
RaceAssemble(b) ==
    /\ scope = "race" /\ pc[b] = "prepared"
    /\ \E read \in {read_json_object(inp[b].record.content)} :
          IF read.raised
          THEN /\ pc' = [pc EXCEPT ![b] = "failed"]
               /\ result' = [result EXCEPT ![b] = Raised("invalid_record", <<>>)]
               /\ UNCHANGED <<fs, dirs, loc>>
          ELSE \E out \in {Assemble(fs[inp[b].dir], inp[b], clock, read.v,
                                    infer_campaign_run_id(read.v, SourcePath))} :
               /\ pc' = [pc EXCEPT ![b] = "bootstrap"]
               /\ fs' = [fs EXCEPT ![inp[b].dir] = out.fs]
               /\ dirs' = [dirs EXCEPT ![inp[b].dir] =
                               @ \cup (IF inp[b].manifests # <<>>
                                       THEN {"artifacts/data_manifests"} ELSE {})
                                 \cup (IF inp[b].extras # <<>>
                                       THEN {"artifacts/extras"} ELSE {})]
               /\ loc' = [loc EXCEPT ![b] = out.loc]
               /\ UNCHANGED result
    /\ clock' = clock + 1
    /\ UNCHANGED <<scope, outExists, inp, tampered, obs, xin, xout>>

\* lines 502-533, as BuildChecklist
RaceChecklist(b) ==
    /\ scope = "race" /\ pc[b] \in {"bootstrap", "checklists"}
    /\ ChecklistsWanted(inp[b].include_checklists,
                        resolved_checklist_templates(inp[b].templates))
    /\ loc[b].todo # <<>>
    /\ \E report \in {evaluate_regulatory_checklist(
                          outExists[inp[b].dir], dirs[inp[b].dir] \cup {"checklists"},
                          fs[inp[b].dir], Head(loc[b].todo), clock)} :
       LET json_path == ChecklistPath(Head(loc[b].todo), ".json")
           md_path == ChecklistPath(Head(loc[b].todo), ".md")
       IN /\ dirs' = [dirs EXCEPT ![inp[b].dir] = @ \cup {"checklists"}]
          /\ IF report.raised
             THEN /\ pc' = [pc EXCEPT ![b] = "failed"]
                  /\ result' = [result EXCEPT ![b] = Raised(report.error, <<>>)]
                  /\ UNCHANGED <<fs, loc>>
             ELSE /\ pc' = [pc EXCEPT ![b] = "checklists"]
                  /\ fs' = [fs EXCEPT ![inp[b].dir] =
                               WithFile(WithFile(@, json_path, Content("json", report)),
                                        md_path, Content("md", report))]
                  /\ loc' = [loc EXCEPT ![b] =
                                [@ EXCEPT !.todo = Tail(@),
                                          !.reports = Append(@, report),
                                          !.rel_paths = @ \o <<json_path, md_path>>]]
                  /\ UNCHANGED result
    /\ clock' = clock + 1
    /\ UNCHANGED <<scope, outExists, inp, tampered, obs, xin, xout>>

\* the final manifest a builder writes over what its directory holds
RaceFinalManifest(local, files, with_checklists) ==
    EvidenceBundleManifest(
        local.bundle_id, local.bootstrap.created_at, local.campaign_run_id,
        local.decisions, local.artifacts, local.models, local.datasets,
        _bundle_file_list(files),
        IF with_checklists THEN SeqMap(JStr, local.rel_paths) ELSE <<>>,
        IF with_checklists THEN ChecklistSummary(local.reports) ELSE EmptyDict,
        local.warnings)

\* lines 159-187: the policy gate, the final manifest and the checksum file
RaceFinal(b) ==
    /\ scope = "race"
    /\ \/ pc[b] = "checklists" /\ loc[b].todo = <<>>
       \/ /\ pc[b] = "bootstrap"
          /\ ~ChecklistsWanted(inp[b].include_checklists,
                               resolved_checklist_templates(inp[b].templates))
    /\ \E messages \in {IF pc[b] = "checklists"
                         THEN _enforce_checklist_policy(loc[b].reports, inp[b].strict,
                                                        inp[b].no_manual)
                         ELSE <<>>} :
          IF messages # <<>>
          THEN /\ pc' = [pc EXCEPT ![b] = "failed"]
               /\ result' = [result EXCEPT ![b] = Raised("policy", messages)]
               /\ UNCHANGED <<fs, loc>>
          ELSE \E final \in {RaceFinalManifest(loc[b], fs[inp[b].dir],
                                                pc[b] = "checklists")} :
               /\ pc' = [pc EXCEPT ![b] = "done"]
               /\ fs' = [fs EXCEPT ![inp[b].dir] =
                            _write_checksums(WithFile(@, P_manifest,
                                                      Content("json", final)))]
               /\ result' = [result EXCEPT ![b] = Returned(final)]
               /\ loc' = [loc EXCEPT ![b] = [@ EXCEPT !.manifests_written = @ + 1]]
    /\ clock' = clock + 1
    /\ UNCHANGED <<scope, outExists, dirs, inp, tampered, obs, xin, xout>>

NextRace ==
    \E b \in Builders :
        \/ RaceCheck(b)
        \/ RacePrepare(b)
        \/ RaceAssemble(b)
        \/ RaceChecklist(b)
        \/ RaceFinal(b)

SpecRace == InitRace /\ [][NextRace]_vars

(***************************************************************************)
(* The extractor runs and the builds together                              *)
(***************************************************************************)
InitAll == InitBuild \/ InitExtract

NextAll == NextBuild \/ NextExtract

SpecAll == InitAll /\ [][NextAll]_vars

(***************************************************************************)
(* Properties.                                                             *)
(***************************************************************************)
Finished == pc = "done" /\ tampered = None
Verified == obs # None /\ obs.op = "verify"
Evaluated(template) == obs # None /\ obs.op = "evaluate" /\ obs.template = template

IsArtifactPath(path) == Head(path) = T("artifacts/")

\* C1: whenever a build has returned, verifying the output directory right
\* away gives ok = true and checked_files > 0.
C1_BuildThenVerifyOk ==
    (Finished /\ Verified) =>
        /\ ~obs.result.raised
        /\ obs.result.ok
        /\ obs.result.checked_files > 0

\* a returned build whose directory does not verify: an extra artifact whose
\* file name ends with a blank
C1_UnverifiableBuild ==
    /\ Finished /\ Verified
    /\ inp.extras = <<Extra(NameESpace)>>
    /\ ~obs.result.ok
    /\ obs.result.errors = <<Err("missing_target", ExtraPath(1, NameE))>>

\* C2: after a build has returned, changing the content of one artifact file
\* makes verify give ok = false with a checksum-mismatch error naming the
\* path of that file.
C2_TamperGivesMismatch ==
    (/\ pc = "done" /\ tampered # None /\ Verified
     /\ tampered.mode \in {"append", "binary"}
     /\ IsArtifactPath(tampered.path))
    => /\ ~obs.result.raised
       /\ ~obs.result.ok
       /\ Err("checksum_mismatch", tampered.path) \in Range(obs.result.errors)

\* the changed artifact is reported as a missing target under another name
C2_TamperNotNamed ==
    /\ pc = "done" /\ tampered # None /\ Verified
    /\ tampered.mode = "append"
    /\ tampered.path = ExtraPath(1, NameESpace)
    /\ ~obs.result.raised
    /\ \A i \in DOMAIN obs.result.errors : obs.result.errors[i].kind # "checksum_mismatch"

StepsAreOneToN(decisions) ==
    /\ decisions # <<>>
    /\ \A i \in DOMAIN decisions : decisions[i].step_index = i

\* C3: the extractor returns N >= 1 decisions with step_index 1..N in the
\* order emitted, and after a build that returned, decisions.jsonl has N lines
\* and the manifest (returned and on disk) has decision_count = N.
C3_StepsAndCounts ==
    /\ (scope = "extract" /\ xout # None) => StepsAreOneToN(xout.first)
    /\ (scope = "build" /\ pc \in {"bootstrap", "checklists", "gated", "done"})
          => StepsAreOneToN(loc.decisions)
    /\ (scope = "build" /\ Finished) =>
          /\ _count_jsonl_lines(fs[P_decisions]) =
                [raised |-> FALSE, count |-> Len(loc.decisions)]
          /\ result.kind = "returned"
          /\ result.manifest.decision_count = JNum(Len(loc.decisions))
          /\ fs[P_manifest].v.decision_count = JNum(Len(loc.decisions))

\* a build that returned with the decisions of every kind
C3_RichBuild ==
    /\ scope = "build" /\ Finished
    /\ Len(loc.decisions) = 10
    /\ loc.decisions[10].decision_type = "note"

DecisionIds(decisions) == [i \in DOMAIN decisions |-> decisions[i].decision_id]

\* C4: extracting twice from the same record with the same campaign_run_id
\* gives the same decision_id at every position, and extracting with two
\* different campaign_run_id values gives two sets of ids with no element in
\* common.
C4_DeterministicAndDisjoint ==
    (scope = "extract" /\ xout # None) =>
        /\ DecisionIds(xout.first) = DecisionIds(xout.again)
        /\ xin.run1 # xin.run2 =>
              Range(DecisionIds(xout.first)) \cap Range(DecisionIds(xout.other)) = {}

\* two run ids that differ only by a trailing blank give the same ids
C4_SharedIds ==
    /\ scope = "extract" /\ xout # None
    /\ xin.run1 = <<T("a")>> /\ xin.run2 = <<T("a"), T(" ")>>
    /\ DecisionIds(xout.first) = DecisionIds(xout.other)

NextEdges(graph) == SeqFilter(LAMBDA e : e.type = "next", graph.edges.v)

DecisionNodes(graph) == SeqFilter(LAMBDA n : n.kind = "decision", graph.nodes.v)

SameBag(a, b) ==
    \A x \in Range(a) \cup Range(b) :
        Cardinality({i \in DOMAIN a : a[i] = x}) = Cardinality({i \in DOMAIN b : b[i] = x})

\* C5: the graph has exactly one campaign_run node; with a decision it has an
\* edge; the decision nodes are the given decisions arranged so that
\* step_index never descends, and the `next` edges are exactly the N-1 links
\* from each decision node to the one after it (none when N <= 1).
C5_LineageChain ==
    (scope = "lineage" /\ xout # None) =>
        LET graph == xout.graph
            nodes == graph.nodes.v
            N == Len(xin.decisions)
            chain == DecisionNodes(graph)
            nexts == NextEdges(graph)
        IN /\ Cardinality({i \in DOMAIN nodes : nodes[i].kind = "campaign_run"}) = 1
           /\ Len(nodes) >= 1
           /\ N >= 1 => Len(graph.edges.v) >= 1
           /\ Len(nexts) = IF N <= 1 THEN 0 ELSE N - 1
           /\ SameBag(chain, SeqMap(LAMBDA d : Node(DecisionNodeId(d), "decision",
                                                    d.step_index), xin.decisions))
           /\ \A k \in 1..(Len(chain) - 1) :
                 /\ chain[k].step_index <= chain[k + 1].step_index
                 /\ nexts[k] = Edge(chain[k].id, chain[k + 1].id, "next")

\* a graph built from three decisions given out of order
C5_ThreeOutOfOrder ==
    /\ scope = "lineage" /\ xout # None
    /\ Len(xin.decisions) = 3
    /\ xin.decisions[1].step_index = 3 /\ xin.decisions[2].step_index = 1
    /\ Len(NextEdges(xout.graph)) = 2

PreconditionErrors == {"record_missing", "not_empty", "invalid_record", "record_vanished"}

StoppedByPolicy == pc = "failed" /\ result.error = "policy"

StatusOf(report, check_id) ==
    {report.items[i].status : i \in {j \in DOMAIN report.items : report.items[j].id = check_id}}

ModesOf(messages) == {messages[i].mode : i \in DOMAIN messages}

CoreOnlyNoData ==
    /\ scope = "build"
    /\ inp.include_checklists
    /\ resolved_checklist_templates(inp.templates) = <<"core">>
    /\ inp.manifests = <<>>

\* C6: a build with checklist_strict and template core, given no data
\* manifest, never returns: once past the preconditions on the record and the
\* output directory it stops at the policy gate in strict mode, the
\* data_provenance check having status fail; the same build with neither
\* policy flag stops only on those preconditions and otherwise returns a
\* manifest.
C6_StrictCoreWithoutData ==
    CoreOnlyNoData =>
        /\ inp.strict => pc \notin {"gated", "done"}
        /\ (inp.strict /\ pc = "failed") =>
              \/ result.error \in PreconditionErrors
              \/ /\ StoppedByPolicy
                 /\ "strict" \in ModesOf(result.messages)
        /\ (pc = "checklists" \/ StoppedByPolicy) =>
              StatusOf(loc.reports[1], "data_provenance") = {"fail"}
        /\ (~inp.strict /\ ~inp.no_manual /\ pc = "failed") =>
              result.error \in PreconditionErrors
        /\ (~inp.strict /\ ~inp.no_manual /\ pc = "done") =>
              /\ result.kind = "returned"
              /\ IsDict(result.manifest)

\* a strict build of an otherwise complete record stopped by the policy gate
C6_StrictStopped ==
    /\ CoreOnlyNoData
    /\ inp.strict /\ ~inp.no_manual
    /\ inp.record = RecordOf(PayloadGood)
    /\ StoppedByPolicy
    /\ loc.reports[1].summary.failed = 1

FailedTemplates(reports) ==
    {reports[i].template : i \in {j \in DOMAIN reports : reports[j].summary.failed > 0}}

ManualTemplates(reports) ==
    {reports[i].template : i \in {j \in DOMAIN reports : reports[j].summary.manual_review > 0}}

PolicyViolated ==
    \/ inp.strict /\ FailedTemplates(loc.reports) # {}
    \/ inp.no_manual /\ ManualTemplates(loc.reports) # {}

\* C7: the policy gate judges the reports of all the templates asked for; it
\* stops the build exactly when (strict and a template has failed > 0) or
\* (require_no_manual_review and a template has manual_review > 0); the one
\* failure carries one message per violated mode, and each message names
\* every offending template; with neither flag the gate never stops a build.
C7_PolicyGate ==
    (scope = "build" /\ inp.include_checklists) =>
        /\ (StoppedByPolicy \/ pc \in {"gated", "done"}) =>
              [i \in DOMAIN loc.reports |-> loc.reports[i].template]
                 = resolved_checklist_templates(inp.templates)
        /\ pc \in {"gated", "done"} => ~PolicyViolated
        /\ StoppedByPolicy =>
              /\ PolicyViolated
              /\ result.kind = "raised"
              /\ \A i, j \in DOMAIN result.messages :
                    result.messages[i].mode = result.messages[j].mode => i = j
              /\ "strict" \in ModesOf(result.messages)
                    <=> (inp.strict /\ FailedTemplates(loc.reports) # {})
              /\ "no_manual_review" \in ModesOf(result.messages)
                    <=> (inp.no_manual /\ ManualTemplates(loc.reports) # {})
              /\ \A i \in DOMAIN result.messages :
                    Range(result.messages[i].templates) =
                       IF result.messages[i].mode = "strict"
                       THEN FailedTemplates(loc.reports)
                       ELSE ManualTemplates(loc.reports)
        /\ (~inp.strict /\ ~inp.no_manual) => ~StoppedByPolicy

\* both flags, both kinds of violation, two offending templates
C7_BothViolations ==
    /\ scope = "build" /\ StoppedByPolicy
    /\ inp.strict /\ inp.no_manual
    /\ Len(result.messages) = 2
    /\ Cardinality(FailedTemplates(loc.reports)) = 2
    /\ Cardinality(ManualTemplates(loc.reports)) = 2
    /\ Len(result.messages[1].templates) = 2

\* C8: whatever the bundle directory holds, evaluating fda_cder_ai_ml gives a
\* report with manual_review >= 2 and submission_ready false, every check
\* that is not automated having status manual_review.
C8_FdaAlwaysManual ==
    (scope = "build" /\ outExists /\ Evaluated("fda_cder_ai_ml")) =>
        /\ ~obs.result.raised
        /\ obs.result.summary.manual_review >= 2
        /\ ~obs.result.summary.submission_ready
        /\ \A i \in DOMAIN obs.result.items :
              ~obs.result.items[i].automated => obs.result.items[i].status = "manual_review"

\* decisions.jsonl holds bytes that are not UTF-8: the evaluation raises
C8_EvaluationRaises ==
    /\ scope = "build" /\ pc = "done"
    /\ tampered = [path |-> P_decisions, mode |-> "binary"]
    /\ Evaluated("fda_cder_ai_ml")
    /\ obs.result.raised
    /\ obs.result.error = "decode"

\* what the caller hands to the build, read off the input
RecordValue == inp.record.content.v

IsValidManifest(source) ==
    /\ source.exists
    /\ source.content.kind = "json" /\ source.content.junk = 0
    /\ IsDict(source.content.v)
    /\ IsStr(source.content.v.dataset_id)
    /\ Strip(source.content.v.dataset_id.v) # <<>>

\* the calls of the final plan when it has a list of calls, otherwise those
\* of the plan
PlannedCalls(record) ==
    IF IsDict(record.final_plan) /\ IsList(record.final_plan.calls)
    THEN SeqFilter(IsDict, record.final_plan.calls.v)
    ELSE IF IsDict(record.plan) /\ IsList(record.plan.calls)
    THEN SeqFilter(IsDict, record.plan.calls.v)
    ELSE <<>>

ValidationFirst(record) ==
    /\ PlannedCalls(record) # <<>>
    /\ PlannedCalls(record)[1].tool = JStr(ValidateTool)

UncertaintyKeys == {"confidence", "confidence_score", "warnings"}
SafetyKeys == {"admet", "toxicity", "warnings"}

HasOutputKey(record, keys) ==
    /\ IsList(record.results)
    /\ \E i \in DOMAIN record.results.v :
          /\ IsDict(record.results.v[i])
          /\ IsDict(record.results.v[i].output)
          /\ Range(record.results.v[i].output.items) \cap keys # {}

NamesAModel(build) ==
    \/ Truthy(build.model_name)
    \/ /\ IsList(RecordValue.results)
       /\ \E i \in DOMAIN RecordValue.results.v :
             IsDict(RecordValue.results.v[i]) /\ IsStr(RecordValue.results.v[i].tool)

BuiltWithDataValidationFirst ==
    /\ scope = "build" /\ Finished
    /\ \E i \in DOMAIN inp.manifests : IsValidManifest(inp.manifests[i])
    /\ ValidationFirst(RecordValue)

\* what the record and the files must give besides, for core to find nothing
CompleteEvidence ==
    /\ IsStr(RecordValue.objective) /\ Strip(RecordValue.objective.v) # <<>>
    /\ ProhibitedIn(StrippedIfStr(RecordValue.objective)) = {}
    /\ ProhibitedIn(StrippedIfStr(RecordValue.planner_response_text)) = {}
    /\ HasOutputKey(RecordValue, UncertaintyKeys)
    /\ HasOutputKey(RecordValue, SafetyKeys)
    /\ NamesAModel(inp)
    /\ \A i \in DOMAIN inp.manifests : IsValidManifest(inp.manifests[i])
    /\ \A i \in DOMAIN inp.extras : inp.extras[i].exists

CoreClean(report) ==
    /\ ~report.raised
    /\ report.summary.failed = 0
    /\ report.summary.auto_checks_passed

ChecklistFiles == {path \in DOMAIN fs : Head(path) = T("checklists/")}

\* C10: a build with include_checklists = false that returns gives, in the
\* value returned and in manifest.json, checklist_reports empty and
\* checklist_summary empty; it creates no checklists directory and writes no
\* checklist file; and it is never stopped by the policy gate or by the
\* evaluation of a template, whatever the policy flags.
C10_ChecklistsDisabled ==
    (scope = "build" /\ ~inp.include_checklists) =>
        /\ Finished =>
              /\ result.kind = "returned"
              /\ result.manifest.checklist_reports = JList(<<>>)
              /\ result.manifest.checklist_summary = EmptyDict
              /\ fs[P_manifest] = Content("json", result.manifest)
        /\ (pc \in {"prepared", "bootstrap", "done"}
               \/ (pc = "failed" /\ result.error = "invalid_record")) =>
              /\ "checklists" \notin dirs
              /\ ChecklistFiles = {}
        /\ pc \notin {"checklists", "gated"}
        /\ pc = "failed" => result.error \in PreconditionErrors

\* a build that returned with checklists disabled and both policy flags set
C10_DisabledWithFlags ==
    /\ scope = "build" /\ Finished
    /\ ~inp.include_checklists
    /\ inp.strict /\ inp.no_manual
    /\ inp.record = RecordOf(PayloadBare)
    /\ inp.manifests = <<>>
    /\ result.kind = "returned"

\* C11: verify_evidence_bundle always returns a result and never raises; for
\* a directory that does not exist the result has ok = false, no checked
\* file, one error and no warning; for every directory ok = (no errors).
C11_VerifyAlwaysReturns ==
    (scope = "build" /\ Verified) =>
        /\ ~obs.result.raised
        /\ obs.result.ok <=> obs.result.errors = <<>>
        /\ ~outExists =>
              /\ ~obs.result.ok
              /\ obs.result.checked_files = 0
              /\ Len(obs.result.errors) = 1
              /\ obs.result.warnings = <<>>

\* decisions.jsonl holds bytes that are not UTF-8: the verification raises
C11_VerifyRaises ==
    /\ scope = "build" /\ pc = "done"
    /\ tampered = [path |-> P_decisions, mode |-> "binary"]
    /\ Verified
    /\ obs.result.raised

BuildRefused ==
    \/ ~inp.record.exists
    \/ outExists /\ (DOMAIN fs # {} \/ dirs # {}) /\ ~inp.overwrite

\* the step of a build from its call to the end of the preconditions
StartStep ==
    (scope = "build" /\ pc = "idle" /\ pc' # "idle") =>
        IF BuildRefused
        THEN /\ pc' = "failed"
             /\ result'.kind = "raised"
             /\ result'.error \in {"record_missing", "not_empty"}
             /\ fs' = fs /\ dirs' = dirs /\ outExists' = outExists
        ELSE /\ pc' = "prepared"
             /\ outExists'
             /\ inp.overwrite => fs' = <<>> /\ dirs' = {"artifacts"}

\* C12: a build given a record path that is no file, or an output directory
\* that exists and is not empty without overwrite, raises and leaves the
\* directory as it was; with overwrite an old directory is removed and made
\* anew, and no file of it is in the finished bundle.
C12_Preconditions ==
    /\ [][StartStep]_vars
    /\ []((scope = "build" /\ inp.overwrite /\ pc \in {"prepared", "bootstrap", "done"})
             => P_stale \notin DOMAIN fs)

\* the record is missing and overwrite is set: the old directory is untouched
C12_RefusedKeepsOld ==
    /\ scope = "build" /\ pc = "failed"
    /\ result.error = "record_missing"
    /\ inp.overwrite
    /\ fs = StaleFiles /\ dirs = {"checklists"}

HowMany(items, Keep(_)) == Len(SeqFilter(Keep, items))

\* C13: the summary of a list of items has total_checks = the number of
\* items; passed, failed, manual_review, not_applicable = the number of items
\* of that status; blocking_failed = the number of failed items of severity
\* critical or high; auto_checks_passed iff no automated item is failed or
\* in manual review; submission_ready iff failed = 0 and manual_review = 0;
\* by_severity[s][t] = the number of items of severity s and status t.
C13_SummaryArithmetic ==
    (scope = "summary" /\ xout # None) =>
        LET items == xin.items
            summary == xout.summary
        IN /\ summary.total_checks = Len(items)
           /\ summary.passed = HowMany(items, LAMBDA i : i.status = "pass")
           /\ summary.failed = HowMany(items, LAMBDA i : i.status = "fail")
           /\ summary.manual_review = HowMany(items, LAMBDA i : i.status = "manual_review")
           /\ summary.not_applicable = HowMany(items, LAMBDA i : i.status = "not_applicable")
           /\ summary.blocking_failed =
                 HowMany(items, LAMBDA i : i.status = "fail"
                                           /\ i.severity \in {"critical", "high"})
           /\ summary.auto_checks_passed <=>
                 ~\E k \in DOMAIN items :
                     items[k].automated /\ items[k].status \in {"fail", "manual_review"}
           /\ summary.submission_ready <=>
                 (summary.failed = 0 /\ summary.manual_review = 0)
           /\ \A s \in Severities : \A t \in {"pass", "fail", "manual_review"} :
                 summary.by_severity[s][t] =
                    HowMany(items, LAMBDA i : i.severity = s /\ i.status = t)

\* two failed items of different severity, one of them blocking
C13_MixedItems ==
    /\ scope = "summary" /\ xout # None
    /\ Len(xin.items) = 2
    /\ xin.items[1].severity = "high" /\ xin.items[1].status = "fail"
    /\ xin.items[2].severity = "low" /\ xin.items[2].status = "fail"
    /\ ~xin.items[1].automated /\ ~xin.items[2].automated
    /\ xout.summary.blocking_failed = 1
    /\ xout.summary.auto_checks_passed
    /\ ~xout.summary.submission_ready

\* C14: when the first line of checksums.sha256 has a digest that is not 64
\* hexadecimal characters, or digest and path are not separated by exactly
\* two spaces, verify returns ok = false with an "Invalid checksums.sha256"
\* error.
C14_BadChecksumLineRejected ==
    (/\ scope = "build" /\ pc = "done" /\ Verified
     /\ tampered # None /\ tampered.mode \in ChecksumLineEdits) =>
        /\ ~obs.result.raised
        /\ ~obs.result.ok
        /\ Err("invalid_checksums", P_checksums) \in Range(obs.result.errors)

\* three spaces between digest and path: the line is taken as an entry and
\* verification succeeds
C14_WideSeparatorAccepted ==
    /\ scope = "build" /\ pc = "done" /\ Verified
    /\ tampered = [path |-> P_checksums, mode |-> "wide_separator"]
    /\ obs.result.ok
    /\ obs.result.checked_files >= 4

\* the templates of the running build up to the first unknown one
TemplatesOfBuild == resolved_checklist_templates(inp.templates)
UnknownAt(k) ==
    /\ k \in DOMAIN TemplatesOfBuild
    /\ TemplatesOfBuild[k] \notin TemplateNames
    /\ \A i \in 1..(k - 1) : TemplatesOfBuild[i] \in TemplateNames

\* the step of a build whose next template is unknown
UnknownTemplateStep ==
    (/\ scope = "build" /\ pc \in {"bootstrap", "checklists"}
     /\ inp.include_checklists
     /\ loc.todo # <<>> /\ Head(loc.todo) \notin TemplateNames) =>
        /\ pc' = "failed"
        /\ result' = Raised("unknown_template", <<>>)
        /\ fs' = fs

\* C15: evaluate_regulatory_checklist raises the unknown-template error for
\* every name other than the three templates, whatever the bundle directory
\* holds (nothing, or a decisions.jsonl that cannot be decoded); a build given
\* such a name stops with that error at that template, and then the
\* directory holds the bootstrap manifest, the reports of the templates
\* before the unknown one and no later report, and the final manifest was
\* never written.
C15_UnknownTemplate ==
    /\ [](\A name \in {"bogus"} :
             (scope = "build" /\ Evaluated(name)) =>
                 obs.result = EvaluationRaised("unknown_template", name))
    /\ [][UnknownTemplateStep]_vars
    /\ [](\A k \in 1..2 :
             (scope = "build" /\ inp.include_checklists /\ UnknownAt(k)) =>
                 /\ pc \notin {"gated", "done"}
                 /\ (pc = "failed" /\ result.error = "unknown_template") =>
                       /\ fs[P_manifest] = Content("json", loc.bootstrap)
                       /\ loc.manifests_written = 1
                       /\ loc.bootstrap.checklist_reports = JList(<<>>)
                       /\ "checklists" \in dirs
                       /\ \A i \in DOMAIN TemplatesOfBuild : \A ext \in {".json", ".md"} :
                             ChecklistPath(TemplatesOfBuild[i], ext) \in DOMAIN fs <=> i < k)

\* a build of core and an unknown template stopped after core was written
C15_AbortedAfterCore ==
    /\ scope = "build" /\ pc = "failed"
    /\ result = Raised("unknown_template", <<>>)
    /\ inp.templates = <<"core", "bogus">>
    /\ ChecklistPath("core", ".json") \in DOMAIN fs
    /\ ChecklistPath("bogus", ".json") \notin DOMAIN fs
    /\ fs[P_manifest] = Content("json", loc.bootstrap)

HowManyOf(list, Keep(_)) == Cardinality({i \in DOMAIN list : Keep(list[i])})

\* a warning about the manifest or extra artifact supplied at position i
WarnsOf(warnings, paths, i, copy_path) ==
    \E w \in Range(warnings) : w.path \in {paths[i].name, copy_path}

C17_RelPathOfOwnCopy ==
    (scope = "build" /\ pc = "done") =>
        \A k \in DOMAIN loc.datasets :
            loc.datasets[k].manifest_rel_path =
                JStr(<<T("artifacts/"), T("data_manifests/")>> \o loc.datasets[k].manifest_name)

\* the record parsed from the second manifest carries the path of the copy
\* of the first, which was dropped
C17_PathOfDroppedManifest ==
    /\ scope = "build" /\ pc = "done"
    /\ inp.manifests = <<ListManifest, ValidManifest(NameM)>>
    /\ Len(loc.datasets) = 1
    /\ loc.datasets[1].manifest_name = PathName(DataManifestPath(2, NameM))
    /\ loc.datasets[1].manifest_rel_path = JStr(DataManifestPath(1, NameM))

PreviewFits(decision) ==
    \/ decision.output_preview = None
    \/ TextLen(decision.output_preview.v) <= MaxPreviewChars

\* C18: every decision the extractor produces has an output_preview that is
\* absent or at most 1000 characters long, whatever its decision type.
C18_PreviewsBounded ==
    (scope = "extract" /\ xout # None) =>
        \A k \in DOMAIN xout.first : PreviewFits(xout.first[k])

\* an objective of 1500 characters is kept whole as the preview of the
\* objective decision, while the preview of the planning decision is cut
C18_LongObjectiveKept ==
    /\ scope = "extract" /\ xout # None
    /\ xin.payload.objective = LongText
    /\ xout.first[1].decision_type = "objective"
    /\ xout.first[1].output_preview = LongText
    /\ Len(xout.first) >= 2
    /\ xout.first[2].decision_type = "planning"
    /\ TextLen(xout.first[2].output_preview.v) = MaxPreviewChars
    /\ xout.first[2].output_preview.v[Len(xout.first[2].output_preview.v)] = T("...")

TypesOf(decisions) == {decisions[k].decision_type : k \in DOMAIN decisions}

\* the record without its objective
WithoutObjective(payload) == [payload EXCEPT !.objective = None]

\* C19: an objective that is not a string is treated like an absent one: the
\* extractor emits no objective decision for it and the inferred run id is
\* the one of the record without the objective; a plan that is not an object
\* gives no initial planning decision.
C19_WrongTypeIsAbsent ==
    (scope = "extract" /\ xout # None) =>
        /\ ~IsStr(xin.payload.objective) =>
              /\ "objective" \notin TypesOf(xout.first)
              /\ xout.inferred = infer_campaign_run_id(WithoutObjective(xin.payload),
                                                       SourcePath)
        /\ ~IsDict(xin.payload.plan) =>
              \A k \in DOMAIN xout.first : xout.first[k].output_refs # "plan:initial"

\* the objective 5 gives an objective decision with the preview "5" and a
\* run id of its own
C19_NumberObjectiveEmitted ==
    /\ scope = "extract" /\ xout # None
    /\ xin.payload.objective = JNum(5)
    /\ xout.first[1].decision_type = "objective"
    /\ xout.first[1].output_preview = JStr(<<T("5")>>)
    /\ xout.inferred # infer_campaign_run_id(WithoutObjective(xin.payload), SourcePath)

\* what a decision is in the order of the log: its type, and the positions
\* in `iterations` and `results` it belongs to
Kind(decision_type, round_index, tool_index) ==
    [decision_type |-> decision_type, round_index |-> round_index,
     tool_index |-> tool_index]
KindOf(decision) ==
    Kind(decision.decision_type, decision.metadata.round_index,
         decision.metadata.tool_index)

RECURSIVE Flattened(_)
Flattened(lists) == IF lists = <<>> THEN <<>> ELSE Head(lists) \o Flattened(Tail(lists))

When(condition, kinds) == IF condition THEN kinds ELSE <<>>

KindsOfIteration(items, idx) ==
    When(IsDict(items[idx]),
         When(IsDict(items[idx]) /\ IsDict(items[idx].policy), <<Kind("policy", idx, 0)>>)
         \o When(IsDict(items[idx]) /\ IsDict(items[idx].critic), <<Kind("critic", idx, 0)>>))

KindsOfResult(items, idx) ==
    When(IsDict(items[idx]), <<Kind("tool_call", 0, idx), Kind("tool_result", 0, idx)>>)

\* the decisions a record gives, in order, before the fallback
KindsBeforeFallback(payload) ==
    LET iterations == ListOrEmpty(payload.iterations)
        results == ListOrEmpty(payload.results)
    IN When(Strip(StrOrEmpty(payload.objective)) # <<>>, <<Kind("objective", 0, 0)>>)
       \o When(IsDict(payload.plan), <<Kind("planning", 0, 0)>>)
       \o Flattened([idx \in DOMAIN iterations |-> KindsOfIteration(iterations, idx)])
       \o When(IsDict(payload.final_plan)
                  /\ ~(IsDict(payload.plan)
                       /\ json_dumps(payload.final_plan) = json_dumps(payload.plan)),
               <<Kind("planning", 0, 0)>>)
       \o Flattened([idx \in DOMAIN results |-> KindsOfResult(results, idx)])
       \o When(IsList(payload.warnings) /\ payload.warnings.v # <<>>, <<Kind("note", 0, 0)>>)

StatusIn(report, check_id) ==
    {report.items[i].status : i \in {j \in DOMAIN report.items : report.items[j].id = check_id}}

\* C21: in a build with checklists, whenever a template is about to be
\* evaluated the directory holds the bootstrap manifest (no checklist
\* reports, empty summary) and verifies ok; every report written by the
\* build has the integrity_verification check passed.
C21_EvaluationsSeeVerifiedBundle ==
    (scope = "build" /\ loc # None) =>
        /\ (pc \in {"bootstrap", "checklists"} /\ inp.include_checklists /\ loc.todo # <<>>) =>
              /\ fs[P_manifest] = Content("json", loc.bootstrap)
              /\ loc.bootstrap.checklist_reports = JList(<<>>)
              /\ loc.bootstrap.checklist_summary = EmptyDict
              /\ verify_evidence_bundle(outExists, fs).ok
        /\ \A k \in DOMAIN loc.reports :
              StatusIn(loc.reports[k], "integrity_verification") = {"pass"}

\* a build given an extra artifact whose name ends with a space returned,
\* and its core report has integrity_verification failed
C21_IntegrityFailedInBuild ==
    /\ scope = "build" /\ pc = "done" /\ tampered = None
    /\ inp.extras = <<Extra(NameESpace)>>
    /\ inp.manifests = <<>>
    /\ Len(loc.reports) = 1
    /\ StatusIn(loc.reports[1], "integrity_verification") = {"fail"}

\* the path written on a line "<digest>  <path>" of the checksum file
WrittenPath(line) == SubSeq(line, FindTwoSpaces(line, 1) + 2, Len(line))

WrittenPaths(content) == [i \in DOMAIN LinesOf(content) |-> WrittenPath(LinesOf(content)[i])]

\* C22: after a build that returned, the paths written in checksums.sha256
\* and the files list of manifest.json are the same list, without
\* repetition, of exactly the files of the directory other than
\* checksums.sha256: manifest.json and both reports of every evaluated
\* template are in it, checksums.sha256 is not; manifest.json on disk is the
\* manifest returned.
C22_FilesAndChecksumsAgree ==
    (scope = "build" /\ pc = "done" /\ tampered = None) =>
        LET files == [i \in DOMAIN result.manifest.files.v |-> result.manifest.files.v[i].v]
            listed == WrittenPaths(fs[P_checksums])
        IN /\ fs[P_manifest] = Content("json", result.manifest)
           /\ listed = files
           /\ Range(files) = DOMAIN fs \ {P_checksums}
           /\ Cardinality(Range(files)) = Len(files)
           /\ P_manifest \in Range(files)
           /\ P_checksums \notin Range(files)
           /\ \A k \in DOMAIN loc.reports : \A ext \in {".json", ".md"} :
                 ChecklistPath(loc.reports[k].template, ext) \in Range(files)

\* a returned build of two templates, a data manifest and nine files listed
C22_TwoTemplatesListed ==
    /\ scope = "build" /\ pc = "done" /\ tampered = None
    /\ Len(loc.reports) = 2
    /\ inp.manifests # <<>>
    /\ Len(result.manifest.files.v) = 9
    /\ Len(LinesOf(fs[P_checksums])) = 9
    /\ ChecklistPath("fda_cder_ai_ml", ".md") \in DOMAIN fs

ManifestParses == P_manifest \in DOMAIN fs /\ ~read_json_object(fs[P_manifest]).raised

\* C23: when manifest.json parses as an object and decisions.jsonl exists,
\* verify returns a result, and the result is ok only if the manifest's
\* decision_count is the number of non-blank lines of decisions.jsonl.
C23_CountMustMatch ==
    (scope = "build" /\ Verified /\ outExists /\ ManifestParses
        /\ P_decisions \in DOMAIN fs) =>
        /\ ~obs.result.raised
        /\ obs.result.ok =>
              read_json_object(fs[P_manifest]).v.decision_count
                 = JNum(_count_jsonl_lines(fs[P_decisions]).count)

\* the decision_count of the manifest was removed and the checksum file
\* written again: verification succeeds
C23_MissingCountAccepted ==
    /\ scope = "build" /\ pc = "done" /\ Verified
    /\ tampered = [path |-> P_manifest, mode |-> "count_removed"]
    /\ IsNone(fs[P_manifest].v.decision_count)
    /\ obs.result.ok

\* the results entries a model record is derived from: objects whose tool is
\* a string
DerivingEntries(results) ==
    {idx \in DOMAIN results : IsDict(results[idx]) /\ IsStr(results[idx].tool)}

\* C24: the records returned are pairwise different in the key (model_name,
\* model_version, tool, backend); they are the keys of the results entries
\* with a string tool, each once, in the order of their first occurrence;
\* when no entry gives a record, the output is the one override record
\* (override name and version, no tool, no backend) if a name is given and
\* nothing otherwise.
C24_ModelsDeduplicated ==
    (scope = "models" /\ xout # None) =>
        LET results == ListOrEmpty(xin.payload.results)
            models == xout.models
            KeyAt(idx) == ModelOfItem(results[idx], xin.override_name, xin.override_version)
            deriving == DerivingEntries(results)
            First(model) ==
                CHOOSE idx \in deriving :
                    /\ KeyAt(idx) = model
                    /\ \A other \in deriving : KeyAt(other) = model => idx <= other
        IN /\ \A i, j \in DOMAIN models : models[i] = models[j] => i = j
           /\ deriving # {} =>
                 /\ Range(models) = {KeyAt(idx) : idx \in deriving}
                 /\ \A i, j \in DOMAIN models : i < j => First(models[i]) < First(models[j])
           /\ deriving = {} =>
                 models = IF Truthy(xin.override_name)
                          THEN <<ModelProvenance(xin.override_name, xin.override_version,
                                                 None, None)>>
                          ELSE <<>>

\* three results, the first and the third with the same key: two records, in
\* the order of the first and the second entry
C24_LaterDuplicateDropped ==
    /\ scope = "models" /\ xout # None
    /\ xin.override_name = None /\ xin.override_version = None
    /\ Len(ListOrEmpty(xin.payload.results)) = 3
    /\ xin.payload.results.v[1] = ResultItem(JStr(FoldTool), Output(<<>>, BackendGpu, None))
    /\ xin.payload.results.v[2] = ResultItem(JStr(ValidateTool), Output(<<>>, None, None))
    /\ xin.payload.results.v[3] = ResultItem(JStr(FoldTool), Output(<<"score">>, BackendGpu, None))
    /\ Len(xout.models) = 2
    /\ xout.models[1].tool = JStr(FoldTool)
    /\ xout.models[2].tool = JStr(ValidateTool)

\* the two builders work on one directory
SameDirectory == inp[1].dir = inp[2].dir

\* a builder has created or written something in its output directory
HasWritten(b) == pc[b] \in {"prepared", "bootstrap", "checklists", "done"}

\* C25: two builds on distinct output directories (absent or empty, overwrite
\* not set) each finish, whatever the interleaving, with a bundle that
\* verifies ok.
C25_DistinctDirectoriesVerify ==
    (scope = "race" /\ ~SameDirectory) =>
        \A b \in Builders :
            /\ pc[b] # "failed"
            /\ pc[b] = "done" =>
                  verify_evidence_bundle(outExists[inp[b].dir], fs[inp[b].dir]).ok

\* both builders passed the emptiness check on one directory, and both have
\* written their final manifest into it
C25_BothWroteOneDirectory ==
    /\ scope = "race" /\ SameDirectory
    /\ \A b \in Builders : pc[b] = "done"

\* on distinct directories, with file names that survive the checksum file,
\* every interleaving ends in bundles that verify
DistinctDirectoriesPlainNames ==
    (scope = "race" /\ ~SameDirectory) =>
        \A b \in Builders :
            /\ pc[b] # "failed"
            /\ (pc[b] = "done" /\ inp[b].extras = <<>>) =>
                  verify_evidence_bundle(outExists[inp[b].dir], fs[inp[b].dir]).ok

PolicyAborted == scope = "build" /\ pc = "failed" /\ result.error = "policy"

\* C26: after a build stopped by the policy gate, manifest.json is the
\* bootstrap manifest with empty checklist_reports and checklist_summary and
\* was written once; both reports of every requested template are on disk
\* and are named neither in manifest.files nor in checksums.sha256; the
\* checksum file is the one written with the bootstrap manifest; and
\* verify_evidence_bundle on the directory returns ok = true.
C26_PolicyAbortLeavesBootstrap ==
    PolicyAborted =>
        LET files == {loc.bootstrap.files.v[i].v : i \in DOMAIN loc.bootstrap.files.v}
            listed == Range(WrittenPaths(fs[P_checksums]))
            reports == {ChecklistPath(template, ext) :
                           template \in Range(resolved_checklist_templates(inp.templates)),
                           ext \in {".json", ".md"}}
        IN /\ fs[P_manifest] = Content("json", loc.bootstrap)
           /\ loc.bootstrap.checklist_reports = JList(<<>>)
           /\ loc.bootstrap.checklist_summary = EmptyDict
           /\ loc.manifests_written = 1
           /\ reports \subseteq DOMAIN fs
           /\ reports \cap files = {}
           /\ reports \cap listed = {}
           /\ listed = DOMAIN fs \ (reports \cup {P_checksums})
           /\ ~verify_evidence_bundle(outExists, fs).raised
           /\ verify_evidence_bundle(outExists, fs).ok

\* a strict build of two templates stopped at the gate, whose directory does
\* not verify
C26_AbortedBundleUnverifiable ==
    /\ PolicyAborted
    /\ inp.strict /\ Len(loc.reports) = 2
    /\ inp.extras = <<Extra(NameESpace)>>
    /\ ChecklistPath("fda_cder_ai_ml", ".md") \in DOMAIN fs
    /\ ~verify_evidence_bundle(outExists, fs).ok

\* the same with names that survive the checksum file
PolicyAbortPlainNames ==
    (PolicyAborted /\ inp.extras # <<Extra(NameESpace)>>) =>
        /\ fs[P_manifest] = Content("json", loc.bootstrap)
        /\ verify_evidence_bundle(outExists, fs).ok

\* the status of every check of a report, in the order of the report
StatusList(report) == [i \in DOMAIN report.items |-> <<report.items[i].id, report.items[i].status>>]

\* C27: on the untouched bundle of a build that returned with checklists,
\* evaluating a requested template again gives, check by check, the statuses
\* of the report the build stored in checklists/<template>.json, and the
\* same summary.
C27_ReevaluationAgrees ==
    (scope = "build" /\ pc = "done" /\ tampered = None /\ inp.include_checklists
        /\ obs # None /\ obs.op = "evaluate"
        /\ obs.template \in Range(TemplatesOfBuild)) =>
        LET stored == fs[ChecklistPath(obs.template, ".json")].v
        IN /\ ~obs.result.raised
           /\ \E k \in DOMAIN loc.reports : loc.reports[k] = stored
           /\ stored.template = obs.template
           /\ StatusList(obs.result) = StatusList(stored)
           /\ obs.result.summary = stored.summary

\* the default template evaluated again on a finished bundle with a data
\* manifest: some checks passed and some are left to manual review
C27_DefaultTemplateAgain ==
    /\ scope = "build" /\ pc = "done" /\ tampered = None
    /\ inp.templates = <<>> /\ inp.include_checklists /\ inp.manifests # <<>>
    /\ Evaluated("drug_discovery_comprehensive")
    /\ ~obs.result.raised
    /\ obs.result.summary.passed > 0
    /\ obs.result.summary.manual_review > 0
    /\ Len(result.manifest.checklist_reports.v) = 2

\* the fields of a manifest that the final write leaves as the bootstrap
\* write set them
CarriedFields ==
    {"bundle_id", "created_at", "campaign_run_id", "source_rel_path", "decision_count",
     "artifact_count", "model_count", "data_count", "model_provenance", "data_provenance",
     "execution_provenance", "warnings"}

RewrittenFields == {"files", "checklist_reports", "checklist_summary"}

\* a step of the build that puts a new manifest.json on disk
WritesManifest ==
    /\ scope = "build" /\ tampered' = None
    /\ P_manifest \in DOMAIN fs'
    /\ (P_manifest \in DOMAIN fs => fs'[P_manifest] # fs[P_manifest])

BootstrapWrite ==
    /\ pc = "prepared" /\ pc' = "bootstrap"
    /\ P_manifest \notin DOMAIN fs
    /\ fs'[P_manifest] = Content("json", loc'.bootstrap)
    /\ loc'.manifests_written = 1

FinalWrite ==
    /\ pc \in {"bootstrap", "gated"} /\ pc' = "done"
    /\ fs[P_manifest] = Content("json", loc.bootstrap)
    /\ fs'[P_manifest] = Content("json", result'.manifest)
    /\ loc.manifests_written = 1 /\ loc'.manifests_written = 2
    /\ loc'.bootstrap = loc.bootstrap

\* C28: in a build that returned, the final manifest has the fields of the
\* bootstrap manifest, and differs from it in none but files,
\* checklist_reports and checklist_summary; manifest.json is written by two
\* steps only, the bootstrap write and then the final write, once each.
C28_TwoManifestsOfOneBuild ==
    /\ []((scope = "build" /\ pc = "done") =>
             /\ loc.manifests_written = 2
             /\ DOMAIN result.manifest = DOMAIN loc.bootstrap
             /\ DOMAIN result.manifest = CarriedFields \cup RewrittenFields \cup {"t"}
             /\ \A field \in CarriedFields : result.manifest[field] = loc.bootstrap[field]
             /\ result.manifest.files # loc.bootstrap.files)
    /\ []((scope = "build" /\ loc # None /\ pc # "done") => loc.manifests_written = 1)
    /\ [][WritesManifest => (BootstrapWrite \/ FinalWrite)]_vars

\* a finished build whose final manifest names reports and counts a failed
\* check, where the bootstrap manifest had neither
C28_AllThreeFieldsRewritten ==
    /\ scope = "build" /\ pc = "done" /\ tampered = None
    /\ loc.bootstrap.checklist_reports = JList(<<>>)
    /\ loc.bootstrap.checklist_summary = EmptyDict
    /\ Len(result.manifest.checklist_reports.v) = 4
    /\ result.manifest.checklist_summary # EmptyDict
    /\ Len(result.manifest.files.v) > Len(loc.bootstrap.files.v)
    /\ inp.manifests # <<>>

\* the directory without the file that was added to it
WithoutNotes == [path \in DOMAIN fs \ {P_notes} |-> fs[path]]

\* a step that hands out the result of verify_evidence_bundle
VerifyStep == obs = None /\ obs' # None /\ obs'.op = "verify"

\* C29: when a file named in neither checksums.sha256 nor manifest.files
\* was added to the bundle of a finished build, verify returns what it
\* returns for the bundle without that file: ok = true, no errors and the
\* same checked_files when that bundle verifies; and a step of verify leaves
\* every file and directory of the bundle as it was.
C29_UnlistedFileIgnored ==
    /\ []((scope = "build" /\ tampered # None /\ tampered.mode = "file_added" /\ Verified) =>
             /\ P_notes \in DOMAIN fs
             /\ P_notes \notin Range(WrittenPaths(fs[P_checksums]))
             /\ JStr(P_notes) \notin Range(result.manifest.files.v)
             /\ obs.result = verify_evidence_bundle(outExists, WithoutNotes)
             /\ verify_evidence_bundle(outExists, WithoutNotes).ok =>
                   /\ obs.result.ok
                   /\ obs.result.errors = <<>>
                   /\ obs.result.checked_files = Len(LinesOf(fs[P_checksums])))
    /\ [][VerifyStep => (fs' = fs /\ dirs' = dirs /\ outExists' = outExists)]_vars

\* a bundle of nine listed files and one added file, verified
C29_VerifiedWithAddedFile ==
    /\ scope = "build" /\ pc = "done" /\ Verified
    /\ tampered # None /\ tampered.mode = "file_added"
    /\ Cardinality(DOMAIN fs) = 11
    /\ obs.result.ok /\ obs.result.checked_files = 9
    /\ obs.result.errors = <<>>

\* the build raised at the reading of the campaign record (line 82)
RecordUnreadable ==
    scope = "build" /\ pc = "failed" /\ result.error \in {"invalid_record", "record_vanished"}

\* the step of lines 67-80 of a build with overwrite on an existing directory
OverwriteStep == scope = "build" /\ pc = "idle" /\ pc' = "prepared" /\ inp.overwrite /\ outExists

\* C30: with overwrite set, the step before the reading of the record leaves
\* of an existing output directory nothing but an empty artifacts/; a build
\* whose record is not a JSON object, or lies in the output directory, then
\* raises at the reading, and the directory holds no file, no manifest, and
\* no subdirectory but artifacts/.
C30_OverwriteDeletesBeforeReading ==
    /\ [][OverwriteStep => (fs' = <<>> /\ dirs' = {"artifacts"} /\ loc' = None)]_vars
    /\ []((scope = "build" /\ inp.overwrite /\ pc \notin {"idle", "prepared"}
              /\ (RecordInside(inp.record) \/ inp.record = ListRecord)) =>
             RecordUnreadable)
    /\ []((RecordUnreadable /\ inp.overwrite) =>
             /\ outExists
             /\ fs = <<>>
             /\ P_manifest \notin DOMAIN fs
             /\ dirs = {"artifacts"})

\* the record was the copy kept in the bundle that the build removed
C30_RecordDeletedWithBundle ==
    /\ scope = "build" /\ pc = "failed" /\ result.error = "record_vanished"
    /\ inp.overwrite /\ inp.record = InsideRecord
    /\ fs = <<>> /\ dirs = {"artifacts"}

====
